---- MODULE Spec2Model ----
(***************************************************************************)
(* Model of server/tools.py: the transport/retry engine                    *)
(* (_make_api_request), the submit tools (query_genie and the legacy       *)
(* query_space_01f0d08866f11370b6735facce14e3ff), the poll tools           *)
(* (poll_genie_response and the legacy                                     *)
(* poll_response_01f0d08866f11370b6735facce14e3ff) with their secondary    *)
(* query-result fetch, and get_query_result_01f0d08866f11370b6735facce14e3ff. *)
(***************************************************************************)
EXTENDS Integers, Sequences, FiniteSets, TLC

VARIABLES
    attempt,          \* _make_api_request: loop index of the for loop
    last_exception,   \* _make_api_request: text of last_exception, <<>> for None
    tpc,              \* _make_api_request: position ("idle", "request", "sleep", "returned", "raised")
    tret,             \* _make_api_request: what the call returned or raised
    resp,             \* the HTTP response (or network failure) of the latest attempt
    hist,             \* kinds of the responses of the attempts of the current call
    log,              \* every request, sleep and call so far, in order
    service,          \* the kind of service the invocation talks to (fixes the domain of the responses)
    tool,             \* the tool that was invoked ("none": _make_api_request called directly)
    args,             \* the arguments of the invocation
    pc,               \* position in the tool
    max_wait_seconds, \* poll tools: the local max_wait_seconds (clamped by poll_genie_response)
    max_attempts,     \* poll tools: max_attempts
    attempts,         \* poll tools: attempts
    current_status,   \* poll tools: current_status
    message_dict,     \* poll tools: message_dict
    observed,         \* the status field of every status response, in order
    qi,               \* poll tools: index of the query the fetch loop is at
    result            \* the payload the tool builds and returns

tvars == <<attempt, last_exception, tpc, tret, resp, hist>>

pvars == <<service, tool, args, pc, max_wait_seconds, max_attempts, attempts, current_status,
           message_dict, observed, qi, result>>

vars == <<attempt, last_exception, tpc, tret, resp, hist, log, service, tool, args, pc,
          max_wait_seconds, max_attempts, attempts, current_status, message_dict,
          observed, qi, result>>

----------------------------------------------------------------------------
(* Module-level constants of tools.py *)

MAX_POLL_ATTEMPTS == 30
POLL_INTERVAL_SECONDS == 2
MAX_RETRIES == 3
INITIAL_RETRY_DELAY == 1

TERMINAL_MESSAGE_STATES == {"COMPLETED", "FAILED", "CANCELLED", "ERROR"}

MESSAGE_STATUSES == {"SUBMITTED", "EXECUTING", "COMPLETED", "FAILED", "CANCELLED", "ERROR"}

\* default of the parameter retry_on_failure; no call site passes another value
retry_on_failure == TRUE

retry_count == IF retry_on_failure THEN MAX_RETRIES ELSE 1

retryable_codes == {"RESOURCE_EXHAUSTED", "UNAVAILABLE", "INTERNAL_ERROR"}

\* the four words the generic handler looks for in str(e)
NonRetryableWords == {"BAD_REQUEST", "PERMISSION_DENIED", "UNAUTHENTICATED", "RESOURCE_NOT_FOUND"}

----------------------------------------------------------------------------
(* Responses: the inputs of one attempt *)

Absent == "<absent>"
MsgPlain == "quota exceeded for workspace"
MsgMention == "upstream said RESOURCE_NOT_FOUND"

\* the "attachments" field of a job record: shape is "absent" (no such key),
\* "null" or "list", items the elements of the list
Attachments(shape, items) == [shape |-> shape, items |-> items]

NoAttachments == Attachments("absent", <<>>)

\* the "statement_response" field of a query-result body: present is FALSE for a
\* missing or empty one; state is status.state; total_chunk_count is
\* manifest.total_chunk_count, -1 when the manifest has none; statement_id,
\* chunk_index and row_offset are what .get reads of statement_id,
\* result.chunk_index and result.row_offset ("" and 0 when missing)
Statement(present, state, total_chunk_count) ==
    [present |-> present, state |-> state, total_chunk_count |-> total_chunk_count,
     statement_id |-> "", chunk_index |-> 0, row_offset |-> 0]

\* a statement that succeeded, with its id and the place of the chunk returned
ChunkOf(statement_id, total_chunk_count, chunk_index, row_offset) ==
    [Statement(TRUE, "SUCCEEDED", total_chunk_count) EXCEPT
        !.statement_id = statement_id, !.chunk_index = chunk_index, !.row_offset = row_offset]

NoStatement == Statement(FALSE, Absent, -1)

\* the state of a statement_response whose "status" is null
NullStatus == "<status is null>"

\* a response body, by the fields the code reads: message, error_code, details
\* (error bodies), status and attachments (job record), conversation_id (inside
\* "message"), message_id and status inside "message" (submit response),
\* statement_response (query-result response)
Body(kind, message, error_code, details, status) ==
    [kind |-> kind, message |-> message, error_code |-> error_code,
     details |-> details, status |-> status, conversation_id |-> Absent,
     message_id |-> Absent, attachments |-> NoAttachments,
     statement_response |-> NoStatement]

EmptyBody == Body("empty", Absent, Absent, Absent, Absent)      \* response.text == ""
GarbageBody == Body("garbage", Absent, Absent, Absent, Absent)  \* text that is not JSON
ListBody == Body("list", Absent, Absent, Absent, Absent)        \* JSON, but an array

Dict(message, error_code, details, status) == Body("dict", message, error_code, details, status)

Response(net, status, body) == [net |-> net, status |-> status, body |-> body]

NetworkFailures == {"Timeout", "ConnectionError", "RequestException"}

Statuses == {200, 400, 401, 403, 404, 405, 429, 500, 502, 503}

BodyErrorCodes == {"RESOURCE_EXHAUSTED", "UNAVAILABLE", "INTERNAL_ERROR",
                   "INVALID_PARAMETER_VALUE", "RESOURCE_NOT_FOUND"}

\* the bodies that can reach the body-level error check (a status below 400)
ParsedBodies ==
    {EmptyBody, GarbageBody, ListBody}
    \cup {Dict(m, Absent, Absent, Absent) : m \in {Absent, MsgPlain, MsgMention}}
    \cup {Dict(m, c, d, Absent) : m \in {Absent, MsgPlain}, c \in BodyErrorCodes,
                                   d \in {Absent, "field x"}}

\* the bodies of a 400 / 403 / 404, of which only "message" is read
ClientErrorBodies ==
    {EmptyBody, GarbageBody, ListBody}
    \cup {Dict(m, Absent, Absent, Absent) : m \in {Absent, MsgPlain, MsgMention}}
    \cup {Dict(MsgPlain, "INVALID_PARAMETER_VALUE", Absent, Absent)}

\* the bodies of the statuses whose body the code never reads
UnreadBodies == {EmptyBody, GarbageBody, Dict(MsgPlain, "INTERNAL_ERROR", Absent, Absent)}

BodiesFor(status) ==
    CASE status < 400 -> ParsedBodies
      [] status \in {400, 403, 404} -> ClientErrorBodies
      [] OTHER -> UnreadBodies

TransportResponses ==
    {Response(n, 0, EmptyBody) : n \in NetworkFailures}
    \cup UNION {{Response("ok", s, b) : b \in BodiesFor(s)} : s \in Statuses}

\* what the history keeps of a response: the network failure or the HTTP status
Kind(r) == IF r.net = "ok" THEN ToString(r.status) ELSE r.net

\* the class of the error response.json() raises on a body that is not JSON:
\* requests.exceptions.JSONDecodeError (a RequestException) since requests 2.27,
\* a plain ValueError before
JsonErrorClasses == {"RequestException", "ValueError"}

\* the classes that can show for response r: the choice exists only where
\* response.json() fails
JsonErrorClassesFor(r) ==
    IF r.body.kind = "garbage" THEN JsonErrorClasses ELSE {"ValueError"}

----------------------------------------------------------------------------
(* Exception texts: a sequence of parts; "w in str(e)" looks into every part *)

NoException == <<>>

WordsIn(part) ==
    IF part \in NonRetryableWords THEN {part}
    ELSE IF part = MsgMention THEN {"RESOURCE_NOT_FOUND"}
    ELSE {}

Mentions(text, word) == \E i \in 1..Len(text) : word \in WordsIn(text[i])

RECURSIVE Pow2(_)
Pow2(n) == IF n = 0 THEN 1 ELSE 2 * Pow2(n - 1)

\* Backoff with the exponent off by one: 2 ** (attempt + 1)
BackoffFromTwo(a) == INITIAL_RETRY_DELAY * Pow2(a + 1)

\* delay = INITIAL_RETRY_DELAY * (2 ** attempt)
Backoff(a) == INITIAL_RETRY_DELAY * Pow2(a)

----------------------------------------------------------------------------
(* _make_api_request: one iteration of the for loop *)

NoValue == Body("none", Absent, Absent, Absent, Absent)

\* TReturn that loses the body
TReturnNothing(val) == [t |-> "return", cls |-> "", text |-> NoException, status |-> 0, val |-> NoValue]

TReturn(val) == [t |-> "return", cls |-> "", text |-> NoException, status |-> 0, val |-> val]

TSleep == [t |-> "sleep", cls |-> "", text |-> NoException, status |-> 0, val |-> NoValue]

TRaise(cls, text, status) == [t |-> "raise", cls |-> cls, text |-> text, status |-> status, val |-> NoValue]

\* the error of response.json() on a body that is not JSON
JsonError(jcls) == TRaise(jcls, <<"Expecting value: line 1 column 1 (char 0)">>, 0)

\* response_data = response.json() if response.text else {}
\* error_msg = response_data.get("message", default); raise Exception(f"{word}: {error_msg}")
ClientError(word, default, body, jcls) ==
    CASE body.kind = "empty" -> TRaise("Exception", <<word, default>>, 0)
      [] body.kind = "garbage" -> JsonError(jcls)
      [] body.kind = "list" -> TRaise("Exception", <<"'list' object has no attribute 'get'">>, 0)
      [] OTHER -> TRaise("Exception",
                         <<word, IF body.message = Absent THEN default ELSE body.message>>, 0)

\* Transient with the budget test off by one: attempt < retry_count
TransientOffByOne(word, text, a, rc) ==
    IF a < rc THEN TSleep ELSE TRaise("Exception", <<word, text>>, 0)

\* the 429 / 500 / 503 branches
Transient(word, text, a, rc) ==
    IF a < rc - 1 THEN TSleep ELSE TRaise("Exception", <<word, text>>, 0)

\* response.raise_for_status()
RaisesForStatus(status) == status >= 400 /\ status < 600

\* the check for API-level errors in a parsed body that has "error_code"
BodyError(body, a, rc) ==
    LET error_msg == IF body.message = Absent THEN "Unknown error" ELSE body.message
        error_details_str == IF body.details = Absent THEN <<>> ELSE <<"Details", body.details>>
    IN  IF body.error_code \in retryable_codes /\ a < rc - 1
        THEN TSleep
        ELSE TRaise("Exception", <<"API Error", body.error_code, error_msg>> \o error_details_str, 0)

\* from "Parse JSON response" to "return response_dict"
ParseBody(r, a, rc) ==
    CASE r.body.kind \in {"empty", "garbage"} ->
            TRaise("Exception", <<"Invalid JSON response. Status code", ToString(r.status)>>, 0)
      [] r.body.kind = "list" -> TReturn(r.body)
      [] OTHER -> IF r.body.error_code # Absent THEN BodyError(r.body, a, rc)
                  ELSE TReturn(r.body)

\* the try block: the request, then the status code ladder
TryBlock(r, a, rc, jcls) ==
    CASE r.net # "ok" -> TRaise(r.net, <<"network failure">>, 0)
      [] r.net = "ok" /\ r.status = 400 ->
            ClientError("BAD_REQUEST", "Invalid request parameters", r.body, jcls)
      [] r.net = "ok" /\ r.status = 401 ->
            TRaise("Exception",
                   <<"UNAUTHENTICATED", "Authentication credentials are missing or invalid">>, 0)
      [] r.net = "ok" /\ r.status = 403 ->
            ClientError("PERMISSION_DENIED", "Insufficient permissions", r.body, jcls)
      [] r.net = "ok" /\ r.status = 404 ->
            ClientError("RESOURCE_NOT_FOUND", "Resource not found", r.body, jcls)
      [] r.net = "ok" /\ r.status = 429 ->
            Transient("RESOURCE_EXHAUSTED", "Rate limit exceeded. Please try again later", a, rc)
      [] r.net = "ok" /\ r.status = 500 ->
            Transient("INTERNAL_ERROR", "Internal server error occurred", a, rc)
      [] r.net = "ok" /\ r.status = 503 ->
            Transient("UNAVAILABLE", "Service temporarily unavailable. Please try again later", a, rc)
      [] OTHER -> IF RaisesForStatus(r.status)
                  THEN TRaise("HTTPError", <<ToString(r.status)>>, r.status)
                  ELSE ParseBody(r, a, rc)

\* Caught without the backoff: the loop goes on at once
CaughtNoBackoff(last, a, rc) == [last |-> last, go |-> "next"]

\* what an except clause does: the new last_exception and where control goes
\* ("sleep": backoff then continue, "next": on to the next iteration at once,
\*  "propagate": the exception leaves the function)
Caught(last, a, rc) == [last |-> last, go |-> IF a < rc - 1 THEN "sleep" ELSE "next"]

\* except requests.exceptions.HTTPError
CaughtHTTPError(e, a, rc) ==
    [last |-> <<"HTTP error">> \o e.text,
     go |-> IF e.status >= 500 /\ a < rc - 1 THEN "sleep" ELSE "next"]

\* except Exception: the string test, then retry
CaughtException(e, a, rc) ==
    IF \E w \in NonRetryableWords : Mentions(e.text, w)
    THEN [last |-> NoException, go |-> "propagate"]
    ELSE Caught(e.text, a, rc)

Handler(e, a, rc) ==
    CASE e.cls = "Timeout" -> Caught(<<"Request timeout after 30 seconds">>, a, rc)
      [] e.cls = "ConnectionError" ->
            Caught(<<"Connection error - unable to reach Databricks API">>, a, rc)
      [] e.cls = "HTTPError" -> CaughtHTTPError(e, a, rc)
      [] e.cls = "RequestException" -> Caught(<<"Request failed">> \o e.text, a, rc)
      [] OTHER -> CaughtException(e, a, rc)

\* AfterLoop that forgets last_exception
AfterLoopForgets(last) == TRaise("Exception", <<"Request failed for unknown reason">>, 0)

\* after the loop: raise last_exception, or the fallback
AfterLoop(last) ==
    IF last # NoException THEN TRaise("Exception", last, 0)
    ELSE TRaise("Exception", <<"Request failed for unknown reason">>, 0)

\* one whole iteration: [go, last, ret]; go is "return", "raise", "sleep" or "next"
Iteration(r, a, rc, last, jcls) ==
    LET t == TryBlock(r, a, rc, jcls) IN
    CASE t.t = "return" -> [go |-> "return", last |-> last, ret |-> t]
      [] t.t = "sleep" -> [go |-> "sleep", last |-> last, ret |-> t]
      [] OTHER ->
            LET h == Handler(t, a, rc) IN
            CASE h.go = "propagate" -> [go |-> "raise", last |-> last, ret |-> t]
              [] h.go = "sleep" -> [go |-> "sleep", last |-> h.last, ret |-> t]
              [] OTHER -> IF a < rc - 1
                          THEN [go |-> "next", last |-> h.last, ret |-> t]
                          ELSE [go |-> "raise", last |-> h.last, ret |-> AfterLoop(h.last)]

----------------------------------------------------------------------------
(* _make_api_request as a process: one action per HTTP request, one per sleep *)

Ev(ev, d) == [ev |-> ev, d |-> d]

NoResponse == Response("none", 0, EmptyBody)

NoResult == [t |-> "none", cls |-> "", text |-> NoException, status |-> 0, val |-> NoValue]

\* entry of _make_api_request: last_exception = None, the loop starts at attempt 0
CallTransport ==
    /\ attempt' = 0
    /\ last_exception' = NoException
    /\ tpc' = "request"
    /\ tret' = NoResult
    /\ resp' = NoResponse
    /\ hist' = <<>>

\* one iteration of the for loop up to its sleep: the request, the classification
\* of the outcome and what the matching except clause does
Request(R) ==
    /\ tpc = "request"
    /\ \E r \in R : \E jcls \in JsonErrorClassesFor(r) :
          LET it == Iteration(r, attempt, retry_count, last_exception, jcls) IN
          /\ resp' = r
          /\ hist' = Append(hist, Kind(r))
          /\ log' = Append(log, Ev("request", 0))
          /\ last_exception' = it.last
          /\ tpc' = CASE it.go = "return" -> "returned"
                      [] it.go = "raise" -> "raised"
                      [] it.go = "sleep" -> "sleep"
                      [] OTHER -> "request"
          /\ attempt' = IF it.go = "next" THEN attempt + 1 ELSE attempt
          /\ tret' = IF it.go \in {"return", "raise"} THEN it.ret ELSE tret
    /\ UNCHANGED pvars

\* time.sleep(delay); continue
BackoffSleep ==
    /\ tpc = "sleep"
    /\ log' = Append(log, Ev("sleep", Backoff(attempt)))
    /\ attempt' = attempt + 1
    /\ tpc' = "request"
    /\ UNCHANGED <<last_exception, tret, resp, hist>>
    /\ UNCHANGED pvars

----------------------------------------------------------------------------
(* Spec: one call of _make_api_request against every sequence of responses *)

\* a query text, by what the code looks at: pad is the number of whitespace
\* characters at its two ends, body the number of characters between them
Query(pad, body) == [pad |-> pad, body |-> body]

NoQuery == Query(0, 0)

\* the parameters of a tool; a tool ignores the ones it does not take
Args(sp, c, m, w, f, q, att) ==
    [space_id |-> sp, conversation_id |-> c, message_id |-> m, max_wait_seconds |-> w,
     fetch_query_results |-> f, query |-> q, attachment_id |-> att]

NoArgs == Args("", "", "", 0, TRUE, NoQuery, "")

\* the structured attachments _extract_attachments returns
Bundle(text_responses, queries, suggested_questions, errors) ==
    [present |-> TRUE, text_responses |-> text_responses, queries |-> queries,
     suggested_questions |-> suggested_questions, errors |-> errors]

\* a payload without the key "attachments"
NoBundle == [Bundle(<<>>, <<>>, <<>>, <<>>) EXCEPT !.present = FALSE]

\* a query result as the tools report it: the attachment it belongs to (legacy
\* entries), the statement state, the error text, the SQL copied from the
\* attachment (poll_genie_response) and whether chunk_info is present
\* statement_id and data are Absent in a record that has no such key
QueryResult(attachment_id, status, error, sql, chunk_info) ==
    [attachment_id |-> attachment_id, status |-> status, error |-> error, sql |-> sql,
     chunk_info |-> chunk_info, statement_id |-> Absent, data |-> Absent]

\* the "chunk_info" of a result
ChunkInfo(total_chunks, current_chunk, row_offset) ==
    [total_chunks |-> total_chunks, current_chunk |-> current_chunk, row_offset |-> row_offset]

\* a result without the key "chunk_info"
NoChunkInfo == ChunkInfo(-1, -1, -1)

NoQueryResult == QueryResult(Absent, Absent, Absent, Absent, NoChunkInfo)

\* the dict a tool returns, by its keys; a key the tool does not set is Absent
\* (-1, empty)
Payload(error, status, poll_attempts, message) ==
    [error |-> error, status |-> status, poll_attempts |-> poll_attempts, message |-> message,
     conversation_id |-> Absent, message_id |-> Absent, error_details |-> <<>>,
     attachments |-> NoBundle, query_result |-> NoQueryResult, query_results |-> <<>>,
     chunk_info |-> NoChunkInfo]

NoPayload == Payload(Absent, Absent, -1, <<>>)

Init ==
    /\ attempt = 0
    /\ last_exception = NoException
    /\ tpc = "request"
    /\ tret = NoResult
    /\ resp = NoResponse
    /\ hist = <<>>
    /\ log = <<>>
    /\ service = "any"
    /\ tool = "none"
    /\ args = NoArgs
    /\ pc = "direct"
    /\ max_wait_seconds = 0
    /\ max_attempts = 0
    /\ attempts = 0
    /\ current_status = "SUBMITTED"
    /\ message_dict = NoValue
    /\ observed = <<>>
    /\ qi = 0
    /\ result = NoPayload

Next ==
    \/ Request(TransportResponses)
    \/ BackoffSleep

Spec == Init /\ [][Next]_vars

----------------------------------------------------------------------------
(* The poll tools: poll_genie_response and the legacy per-space poll tool *)

TransportDone == tpc \in {"returned", "raised"}

Generic == "poll_genie_response"
Legacy == "poll_response_01f0d08866f11370b6735facce14e3ff"

\* len(s) and s.strip() on the identifiers the model draws
StrLen(s) ==
    CASE s = "" -> 0
      [] s = "  " -> 2
      [] s = "123456789" -> 9
      [] s = "0123456789" -> 10
      [] OTHER -> 32

Strip(s) ==
    CASE s = "  " -> ""
      [] s = " q1 " -> "q1"
      [] OTHER -> s

Min(a, b) == IF a < b THEN a ELSE b

Max(a, b) == IF a > b THEN a ELSE b

InvalidInput(message) == Payload("INVALID_INPUT", Absent, -1, <<message>>)

\* the checks both tools make on conversation_id and message_id; the legacy
\* tool words the format errors differently
IdsError(a, t) ==
    CASE a.conversation_id = "" \/ a.message_id = "" ->
            "conversation_id and message_id are required"
      [] StrLen(a.conversation_id) < 10 ->
            IF t = Generic THEN "Invalid conversation_id format"
            ELSE "Invalid conversation_id format. Must be a valid UUID string."
      [] StrLen(a.message_id) < 10 ->
            IF t = Generic THEN "Invalid message_id format"
            ELSE "Invalid message_id format. Must be a valid UUID string."
      [] OTHER -> Absent

\* poll_genie_response: the validation before the clamp
GenericValidation(a) ==
    IF a.space_id = "" \/ Strip(a.space_id) = "" THEN "space_id is required"
    ELSE IdsError(a, Generic)

\* the legacy tool: the validation, with its range check of max_wait_seconds
LegacyValidation(a) ==
    CASE IdsError(a, Legacy) # Absent -> IdsError(a, Legacy)
      [] a.max_wait_seconds < 1 -> "max_wait_seconds must be at least 1"
      [] a.max_wait_seconds > 600 -> "max_wait_seconds cannot exceed 600 (10 minutes)"
      [] OTHER -> Absent

\* Clamp without the upper limit
ClampFromBelow(w) == Max(1, w)

\* max_wait_seconds = max(1, min(300, max_wait_seconds))
Clamp(w) == Max(1, Min(300, w))

\* GenericMaxAttempts without the lower limit
GenericMaxAttemptsFloor(w) == w \div POLL_INTERVAL_SECONDS

\* max_attempts = max(1, max_wait_seconds // POLL_INTERVAL_SECONDS)
GenericMaxAttempts(w) == Max(1, w \div POLL_INTERVAL_SECONDS)

\* max_attempts = min(max_wait_seconds // POLL_INTERVAL_SECONDS, MAX_POLL_ATTEMPTS),
\* raised to 1 when below
LegacyMaxAttempts(w) ==
    LET m == Min(w \div POLL_INTERVAL_SECONDS, MAX_POLL_ATTEMPTS) IN IF m < 1 THEN 1 ELSE m

\* the except clause around the body of the tool
PollExcept(t, text) ==
    IF t = Generic /\ Mentions(text, "RESOURCE_NOT_FOUND")
    THEN Payload("RESOURCE_NOT_FOUND", Absent, -1,
                 <<"Conversation or message not found. Verify the IDs are correct.">>)
    ELSE Payload("POLL_FAILED", Absent, -1, text)

\* the tool returns: nothing more happens in this invocation
Return(payload) ==
    /\ result' = payload
    /\ pc' = "done"

\* entry of the tool: validation, the clamp, the polling parameters and the
\* authenticated client (which may fail to authenticate)
PollStart ==
    /\ pc = "start"
    /\ tool \in {Generic, Legacy}
    /\ LET err == IF tool = Generic THEN GenericValidation(args) ELSE LegacyValidation(args)
           w == IF tool = Generic THEN Clamp(args.max_wait_seconds) ELSE args.max_wait_seconds
       IN  IF err # Absent
           THEN /\ Return(InvalidInput(err))
                /\ UNCHANGED <<log, max_wait_seconds, max_attempts>>
           ELSE /\ max_wait_seconds' = w
                /\ \E ok \in BOOLEAN :
                      IF ~ok
                      THEN /\ log' = Append(log, Ev("client", 0))
                           /\ Return(PollExcept(tool, <<"Failed to authenticate with Databricks">>))
                           /\ max_attempts' =
                                 IF tool = Generic THEN GenericMaxAttempts(w) ELSE max_attempts
                      ELSE /\ max_attempts' = IF tool = Generic THEN GenericMaxAttempts(w)
                                              ELSE LegacyMaxAttempts(w)
                           /\ log' = IF tool = Generic
                                     THEN log \o <<Ev("client", 0), Ev("authenticate", 0)>>
                                     ELSE Append(log, Ev("client", 0))
                           /\ pc' = "loop"
                           /\ UNCHANGED result
    /\ UNCHANGED <<service, qi, tool, args, attempts, current_status, message_dict, observed>>
    /\ UNCHANGED tvars

\* LoopContinues with the bound off by one: attempts <= max_attempts
LoopContinuesOffByOne(n, m) == n <= m

\* while attempts < max_attempts
LoopContinues(n, m) == n < m

\* one more turn of the loop: attempts += 1, then the status call (the legacy tool
\* fetches the headers anew for every call, which may fail)
PollCall ==
    /\ pc = "loop"
    /\ LoopContinues(attempts, max_attempts)
    /\ attempts' = attempts + 1
    /\ \E ok \in IF tool = Legacy THEN BOOLEAN ELSE {TRUE} :
          IF ok
          THEN /\ log' = IF tool = Legacy
                         THEN log \o <<Ev("authenticate", 0), Ev("status_call", 0)>>
                         ELSE Append(log, Ev("status_call", 0))
               /\ CallTransport
               /\ pc' = "status_call"
               /\ UNCHANGED result
          ELSE /\ log' = Append(log, Ev("authenticate", 0))
               /\ Return(PollExcept(tool, <<"Failed to authenticate with Databricks">>))
               /\ UNCHANGED tvars
    /\ UNCHANGED <<service, qi, tool, args, max_wait_seconds, max_attempts, current_status,
                   message_dict, observed>>

\* the loop condition fails: on to the dispatch on current_status
PollLoopExit ==
    /\ pc = "loop"
    /\ ~LoopContinues(attempts, max_attempts)
    /\ pc' = "dispatch"
    /\ UNCHANGED <<service, qi, tool, args, max_wait_seconds, max_attempts, attempts, current_status,
                   message_dict, observed, result, log>>
    /\ UNCHANGED tvars

\* message_dict.get("status", "UNKNOWN")
StatusOf(body) == IF body.status = Absent THEN "UNKNOWN" ELSE body.status

\* IsTerminal that knows COMPLETED only
IsTerminalCompletedOnly(status) == status = "COMPLETED"

\* IsTerminal that stops on everything but SUBMITTED and EXECUTING
IsTerminalOrUnknown(status) == status \notin {"SUBMITTED", "EXECUTING"}

\* is the loop left by break?
IsTerminal(status) == status \in TERMINAL_MESSAGE_STATES

\* the legacy tool renames a status it does not know: f"UNKNOWN_{current_status}"
UnknownStatus(status) ==
    CASE status = "UNKNOWN" -> "UNKNOWN_UNKNOWN"
      [] status = "PAUSED" -> "UNKNOWN_PAUSED"
      [] OTHER -> status

LegacyRename(status) ==
    IF status \notin MESSAGE_STATUSES /\ status \notin TERMINAL_MESSAGE_STATES
    THEN UnknownStatus(status) ELSE status

\* AfterStatus that sleeps after the last attempt too
AfterStatusAlwaysSleeps(n, m) == "poll_sleep"

\* where the loop body goes after a non-terminal status
AfterStatus(n, m) == IF n < m THEN "poll_sleep" ELSE "loop"

\* PollStatus that swallows a failure of the status call and polls on
PollStatusSwallows ==
    /\ pc = "status_call"
    /\ TransportDone
    /\ tpc' = "idle"
    /\ UNCHANGED <<attempt, last_exception, tret, resp, hist, log>>
    /\ UNCHANGED <<service, qi, tool, args, max_wait_seconds, max_attempts, attempts>>
    /\ IF tpc = "raised"
       THEN /\ pc' = AfterStatus(attempts, max_attempts)
            /\ UNCHANGED <<current_status, message_dict, observed, result>>
       ELSE /\ message_dict' = tret.val
            /\ IF tret.val.kind # "dict"
               THEN /\ Return(PollExcept(tool, <<"'list' object has no attribute 'get'">>))
                    /\ UNCHANGED <<current_status, observed>>
               ELSE LET st == StatusOf(tret.val) IN
                    /\ observed' = Append(observed, tret.val.status)
                    /\ IF IsTerminal(st)
                       THEN /\ current_status' = st
                            /\ pc' = "dispatch"
                       ELSE /\ current_status' = IF tool = Legacy THEN LegacyRename(st) ELSE st
                            /\ pc' = AfterStatus(attempts, max_attempts)
                    /\ UNCHANGED result

\* the status call is over: it raised (the except clause answers), or it
\* returned the job record and the rest of the loop body runs
PollStatus ==
    /\ pc = "status_call"
    /\ TransportDone
    /\ tpc' = "idle"
    /\ UNCHANGED <<attempt, last_exception, tret, resp, hist, log>>
    /\ UNCHANGED <<service, qi, tool, args, max_wait_seconds, max_attempts, attempts>>
    /\ IF tpc = "raised"
       THEN /\ Return(PollExcept(tool, tret.text))
            /\ UNCHANGED <<current_status, message_dict, observed>>
       ELSE /\ message_dict' = tret.val
            /\ IF tret.val.kind # "dict"
               THEN /\ Return(PollExcept(tool, <<"'list' object has no attribute 'get'">>))
                    /\ UNCHANGED <<current_status, observed>>
               ELSE LET st == StatusOf(tret.val) IN
                    /\ observed' = Append(observed, tret.val.status)
                    /\ IF IsTerminal(st)
                       THEN /\ current_status' = st
                            /\ pc' = "dispatch"
                       ELSE /\ current_status' = IF tool = Legacy THEN LegacyRename(st) ELSE st
                            /\ pc' = AfterStatus(attempts, max_attempts)
                    /\ UNCHANGED result

\* time.sleep(POLL_INTERVAL_SECONDS)
PollSleep ==
    /\ pc = "poll_sleep"
    /\ log' = Append(log, Ev("poll_sleep", POLL_INTERVAL_SECONDS))
    /\ pc' = "loop"
    /\ UNCHANGED <<service, qi, tool, args, max_wait_seconds, max_attempts, attempts, current_status,
                   message_dict, observed, result>>
    /\ UNCHANGED tvars

----------------------------------------------------------------------------
(* Attachments of a job record: _extract_attachments and the error details *)

\* an element of the attachments list, by what the code reads of it: kind is
\* "dict" or "null" (an element that is no object); attachment_id is "" when the
\* key is missing; text is text.content (Absent: no "text" object); sql is
\* query.query (Absent: no "query" object); meta tells whether
\* query.query_result_metadata is "absent", "null" or a "dict"; questions is
\* suggested_questions.questions; error is the "error" value (Absent: no key).
\* A sub-key whose value fails the isinstance test of the code reads as a
\* sub-key that is not there (text, sql: Absent; questions: the empty list; a
\* null content, a null sql: ""), but for the two the code reads unchecked:
\* query_result_metadata ("null": any value that is no object) and, in the
\* dispatch on FAILED, error (ErrStr)
Item(kind, attachment_id, text, sql, meta, questions, error) ==
    [kind |-> kind, attachment_id |-> attachment_id, text |-> text, sql |-> sql,
     meta |-> meta, questions |-> questions, error |-> error]

\* an "error" value that is a string, not an object
ErrStr == "<error as string>"

\* an element of "questions" that is no string (a number, null, a list)
NonString == "<not a string>"

\* isinstance(q, str) and q.strip()
ValidQuestion(q) == q # NonString /\ Strip(q) # ""

\* query_info["query_result_metadata"].get(...) on a null metadata
MetaRaises(it) == it.kind = "dict" /\ it.sql # Absent /\ it.meta = "null"

\* Unique that removes nothing
UniqueKeepsAll(qs, seen) == qs

\* seen / unique_questions: the first occurrence of every question, in order
RECURSIVE Unique(_, _)
Unique(qs, seen) ==
    IF qs = <<>> THEN <<>>
    ELSE IF Head(qs) \in seen THEN Unique(Tail(qs), seen)
         ELSE <<Head(qs)>> \o Unique(Tail(qs), seen \cup {Head(qs)})

\* the questions of all attachments, in order
RECURSIVE AllQuestions(_)
AllQuestions(items) ==
    IF items = <<>> THEN <<>> ELSE Head(items).questions \o AllQuestions(Tail(items))

\* ExtractAttachments written as one if / elif chain over the sub-keys: an
\* element that has a text contributes nothing else
ExtractAttachmentsFirstKey(body) ==
    LET dicts == IF body.attachments.shape = "list"
                 THEN SelectSeq(body.attachments.items, LAMBDA it : it.kind = "dict")
                 ELSE <<>>
        texts == SelectSeq(dicts, LAMBDA it : it.text \notin {Absent, ""})
        rest == SelectSeq(dicts, LAMBDA it : it.text = Absent)
        qs == SelectSeq(rest, LAMBDA it : it.sql \notin {Absent, ""})
        errs == SelectSeq(rest, LAMBDA it : it.error \notin {Absent, ErrStr})
    IN  [raised |-> \E i \in DOMAIN dicts : MetaRaises(dicts[i]),
         bundle |-> Bundle(
             [i \in DOMAIN texts |->
                 [content |-> texts[i].text, attachment_id |-> texts[i].attachment_id]],
             [i \in DOMAIN qs |-> [sql |-> qs[i].sql, attachment_id |-> qs[i].attachment_id]],
             Unique(SelectSeq(AllQuestions(rest), ValidQuestion), {}),
             [i \in DOMAIN errs |->
                 [message |-> errs[i].error, attachment_id |-> errs[i].attachment_id]])]

\* _extract_attachments(message_dict): raised tells that it raised instead of
\* returning the bundle
ExtractAttachments(body) ==
    LET dicts == IF body.attachments.shape = "list"
                 THEN SelectSeq(body.attachments.items, LAMBDA it : it.kind = "dict")
                 ELSE <<>>
        texts == SelectSeq(dicts, LAMBDA it : it.text \notin {Absent, ""})
        qs == SelectSeq(dicts, LAMBDA it : it.sql \notin {Absent, ""})
        errs == SelectSeq(dicts, LAMBDA it : it.error \notin {Absent, ErrStr})
    IN  [raised |-> \E i \in DOMAIN dicts : MetaRaises(dicts[i]),
         bundle |-> Bundle(
             [i \in DOMAIN texts |->
                 [content |-> texts[i].text, attachment_id |-> texts[i].attachment_id]],
             [i \in DOMAIN qs |-> [sql |-> qs[i].sql, attachment_id |-> qs[i].attachment_id]],
             Unique(SelectSeq(AllQuestions(dicts), ValidQuestion), {}),
             [i \in DOMAIN errs |->
                 [message |-> errs[i].error, attachment_id |-> errs[i].attachment_id]])]

\* the loop "for attachment in message_dict.get("attachments", []): if "error" in
\* attachment": the raw error values in order; it raises on a null attachments
\* field and on an element that is null
ErrorDetails(body) ==
    LET a == body.attachments
        withError == SelectSeq(a.items, LAMBDA it : it.kind = "dict" /\ it.error # Absent)
    IN  [raised |-> a.shape = "null" \/ \E i \in DOMAIN a.items : a.items[i].kind = "null",
         details |-> [i \in DOMAIN withError |-> withError[i].error]]

\* after the loop: the outcome by current_status
\* the payload of FAILED, and of ERROR in the legacy tool: the raw error values
\* as error_details; the legacy tool appends the message of the first one to its
\* text, which raises when that value is no object
WithErrorDetails(t, error, text, status, n, body) ==
    LET ed == ErrorDetails(body) IN
    CASE ed.raised -> PollExcept(t, <<"'NoneType' object is not iterable">>)
      [] ~ed.raised /\ t = Legacy /\ ed.details # <<>> /\ ed.details[1] = ErrStr ->
            PollExcept(t, <<"'str' object has no attribute 'get'">>)
      [] OTHER ->
            [Payload(error, status, n,
                     <<text>> \o (IF t = Legacy /\ ed.details # <<>>
                                  THEN <<ed.details[1]>> ELSE <<>>))
                EXCEPT !.error_details = ed.details]

\* Outcome that returns the timeout without an error field
OutcomeSilentTimeout(t, status, n, w, body) ==
    CASE status = "FAILED" ->
            WithErrorDetails(t, "MESSAGE_FAILED", "The Genie message failed to process",
                             status, n, body)
      [] status = "CANCELLED" ->
            Payload("MESSAGE_CANCELLED", status, n, <<"The Genie message was cancelled">>)
      [] status = "ERROR" ->
            IF t = Legacy
            THEN WithErrorDetails(t, "MESSAGE_ERROR", "An error occurred during message processing",
                                  status, n, body)
            ELSE Payload("MESSAGE_ERROR", status, n, <<"An error occurred during message processing">>)
      [] OTHER -> Payload(Absent, status, n, <<>>)

\* after the loop: the outcome by current_status; for COMPLETED (OTHER) the
\* result the tool goes on to fill
Outcome(t, status, n, w, body) ==
    CASE status = "FAILED" ->
            WithErrorDetails(t, "MESSAGE_FAILED", "The Genie message failed to process",
                             status, n, body)
      [] status = "CANCELLED" ->
            Payload("MESSAGE_CANCELLED", status, n, <<"The Genie message was cancelled">>)
      [] status = "ERROR" ->
            IF t = Legacy
            THEN WithErrorDetails(t, "MESSAGE_ERROR", "An error occurred during message processing",
                                  status, n, body)
            ELSE Payload("MESSAGE_ERROR", status, n, <<"An error occurred during message processing">>)
      [] status \notin {"FAILED", "CANCELLED", "ERROR"} /\ status \notin TERMINAL_MESSAGE_STATES ->
            Payload("TIMEOUT", status, n,
                    <<"Message did not complete within", ToString(w), "seconds. Current status",
                      status>>)
      [] OTHER -> Payload(Absent, status, n, <<>>)

\* PollDispatch that fetches the results whether they are wanted or not
PollDispatchAlwaysFetches ==
    /\ pc = "dispatch"
    /\ LET out == Outcome(tool, current_status, attempts, max_wait_seconds, message_dict)
           ex == ExtractAttachments(message_dict)
       IN  IF current_status # "COMPLETED"
           THEN Return(out) /\ qi' = qi
           ELSE IF ex.raised
                THEN /\ Return(PollExcept(tool, <<"'NoneType' object has no attribute 'get'">>))
                     /\ qi' = qi
                ELSE IF ex.bundle.queries # <<>>
                     THEN /\ result' = [out EXCEPT !.attachments = ex.bundle]
                          /\ qi' = 1
                          /\ pc' = "fetch_loop"
                     ELSE /\ Return([out EXCEPT !.attachments = ex.bundle])
                          /\ qi' = qi
    /\ UNCHANGED <<service, tool, args, max_wait_seconds, max_attempts, attempts, current_status,
                   message_dict, observed, log>>
    /\ UNCHANGED tvars

\* the dispatch on current_status; for COMPLETED the attachments are extracted
\* and, if results are wanted and there are queries, the fetch loop is entered
PollDispatch ==
    /\ pc = "dispatch"
    /\ LET out == Outcome(tool, current_status, attempts, max_wait_seconds, message_dict)
           ex == ExtractAttachments(message_dict)
       IN  IF current_status # "COMPLETED"
           THEN Return(out) /\ qi' = qi
           ELSE IF ex.raised
                THEN /\ Return(PollExcept(tool, <<"'NoneType' object has no attribute 'get'">>))
                     /\ qi' = qi
                ELSE IF args.fetch_query_results /\ ex.bundle.queries # <<>>
                     THEN /\ result' = [out EXCEPT !.attachments = ex.bundle]
                          /\ qi' = 1
                          /\ pc' = "fetch_loop"
                     ELSE /\ Return([out EXCEPT !.attachments = ex.bundle])
                          /\ qi' = qi
    /\ UNCHANGED <<service, tool, args, max_wait_seconds, max_attempts, attempts, current_status,
                   message_dict, observed, log>>
    /\ UNCHANGED tvars

----------------------------------------------------------------------------
(* The submit tools: query_genie and the legacy per-space query tool *)

QueryGenie == "query_genie"
QuerySpace == "query_space_01f0d08866f11370b6735facce14e3ff"

\* the limit on len(query.strip())
MaxQueryLength == 10000

\* len(query)
QLen(q) == q.pad + q.body

\* QStrip that leaves the whitespace in place
QStripNothing(q) == q

\* query.strip()
QStrip(q) == Query(0, q.body)

\* Given that takes the empty string for an identifier
GivenUnlessNone(id) == id # Absent

\* "if conversation_id:" fails for None (Absent) and for the empty string
Given(id) == id \notin {Absent, ""}

\* the validation of query and conversation_id, the same in both submit tools
\* but for the wording of the first message
QueryError(a, t) ==
    CASE QLen(a.query) = 0 \/ QLen(QStrip(a.query)) = 0 ->
            IF t = QueryGenie THEN "query is required" ELSE "Query cannot be empty"
      [] QLen(QStrip(a.query)) > MaxQueryLength ->
            "Query exceeds maximum length of 10,000 characters"
      [] Given(a.conversation_id) /\ StrLen(a.conversation_id) < 10 ->
            "Invalid conversation_id format. Must be a valid UUID string."
      [] OTHER -> Absent

\* query_genie checks space_id first; the legacy tool has none to check
SubmitValidation(a, t) ==
    IF t = QueryGenie /\ (a.space_id = "" \/ Strip(a.space_id) = "")
    THEN "space_id is required"
    ELSE QueryError(a, t)

\* the except clause around the body of a submit tool
SubmitExcept(t, text) ==
    CASE t = QueryGenie /\ Mentions(text, "RESOURCE_NOT_FOUND") ->
            Payload("SPACE_NOT_FOUND", Absent, -1,
                    <<"Genie space not found. Use list_genie_spaces to find valid space IDs.">>)
      [] t = QueryGenie /\ ~Mentions(text, "RESOURCE_NOT_FOUND")
                        /\ Mentions(text, "PERMISSION_DENIED") ->
            Payload("PERMISSION_DENIED", Absent, -1,
                    <<"Insufficient permissions to query space">>)
      [] OTHER -> Payload("QUERY_FAILED", Absent, -1, text)

\* the conversation_id of a submit response whose "message" is null
NullMessage == "<message is null>"

\* SubmitOutcome without the check of the identifiers
SubmitOutcomeUnchecked(body) ==
    [Payload(Absent, StatusOf(body), -1, <<>>) EXCEPT
        !.conversation_id = body.conversation_id, !.message_id = body.message_id]

\* from "Extract response data" to the return, for a body with a message to
\* read (a missing message reads as an empty one)
SubmitOutcome(body) ==
    IF body.conversation_id \in {Absent, ""} \/ body.message_id \in {Absent, ""}
    THEN Payload("INVALID_RESPONSE", Absent, -1,
                 <<"Failed to extract conversation_id or message_id from response">>)
    ELSE [Payload(Absent, StatusOf(body), -1, <<>>) EXCEPT
             !.conversation_id = body.conversation_id, !.message_id = body.message_id]

\* entry of a submit tool: validation, the client (which may fail to
\* authenticate), the payload, the headers and the POST to start-conversation
SubmitStart ==
    /\ pc = "start"
    /\ tool \in {QueryGenie, QuerySpace}
    /\ LET err == SubmitValidation(args, tool) IN
       IF err # Absent
       THEN /\ Return(InvalidInput(err))
            /\ UNCHANGED log
            /\ UNCHANGED tvars
       ELSE \E ok \in BOOLEAN :
               IF ok
               THEN /\ log' = log \o <<Ev("client", 0), Ev("authenticate", 0)>>
                    /\ CallTransport
                    /\ pc' = "submit_call"
                    /\ UNCHANGED result
               ELSE /\ log' = Append(log, Ev("client", 0))
                    /\ Return(SubmitExcept(tool, <<"Failed to authenticate with Databricks">>))
                    /\ UNCHANGED tvars
    /\ UNCHANGED <<service, qi, tool, args, max_wait_seconds, max_attempts, attempts,
                   current_status, message_dict, observed>>

\* SubmitDone that goes on to poll the new message when the POST returned
SubmitDoneThenPolls ==
    /\ pc = "submit_call"
    /\ TransportDone
    /\ tpc' = "idle"
    /\ IF tpc = "raised"
       THEN Return(SubmitExcept(tool, tret.text)) /\ UNCHANGED max_attempts
       ELSE pc' = "loop" /\ max_attempts' = 1 /\ UNCHANGED result
    /\ UNCHANGED <<attempt, last_exception, tret, resp, hist, log>>
    /\ UNCHANGED <<service, qi, tool, args, max_wait_seconds, attempts,
                   current_status, message_dict, observed>>

\* the POST is over: it raised, or it returned the body the ids are read from
SubmitDone ==
    /\ pc = "submit_call"
    /\ TransportDone
    /\ tpc' = "idle"
    /\ Return(CASE tpc = "raised" -> SubmitExcept(tool, tret.text)
                [] tpc # "raised" /\ tret.val.kind # "dict" ->
                      SubmitExcept(tool, <<"'list' object has no attribute 'get'">>)
                [] tpc # "raised" /\ tret.val.kind = "dict"
                                  /\ tret.val.conversation_id = NullMessage ->
                      SubmitExcept(tool, <<"'NoneType' object has no attribute 'get'">>)
                [] OTHER -> SubmitOutcome(tret.val))
    /\ UNCHANGED <<attempt, last_exception, tret, resp, hist, log>>
    /\ UNCHANGED <<service, qi, tool, args, max_wait_seconds, max_attempts, attempts,
                   current_status, message_dict, observed>>

----------------------------------------------------------------------------
(* The legacy get_query_result tool *)

GetQueryResult == "get_query_result_01f0d08866f11370b6735facce14e3ff"

\* a 400 message by which the service refuses an attachment that is no query
MsgNotQuery == "Attachment is not a valid query attachment"

\* "not a valid query attachment" in error_str.lower()
MentionsNotQuery(text) == \E i \in 1..Len(text) : text[i] = MsgNotQuery

\* GetResultValidation without the checks of attachment_id
GetResultValidationNoAttachment(a) ==
    CASE a.conversation_id = "" \/ a.message_id = "" ->
            "conversation_id, message_id, and attachment_id are all required"
      [] StrLen(a.conversation_id) < 10 -> "Invalid conversation_id format"
      [] StrLen(a.message_id) < 10 -> "Invalid message_id format"
      [] OTHER -> Absent

GetResultValidation(a) ==
    CASE a.conversation_id = "" \/ a.message_id = "" \/ a.attachment_id = "" ->
            "conversation_id, message_id, and attachment_id are all required"
      [] StrLen(a.conversation_id) < 10 -> "Invalid conversation_id format"
      [] StrLen(a.message_id) < 10 -> "Invalid message_id format"
      [] StrLen(a.attachment_id) < 10 -> "Invalid attachment_id format"
      [] OTHER -> Absent

\* statement_response.get("status", {}).get("state", "UNKNOWN")
StateOf(st) == IF st.state = Absent THEN "UNKNOWN" ELSE st.state

\* Chunked with the test total_chunk_count >= 1
ChunkedFromOne(st) == (IF st.total_chunk_count = -1 THEN 1 ELSE st.total_chunk_count) >= 1

\* manifest.get("total_chunk_count", 1) > 1
Chunked(st) == (IF st.total_chunk_count = -1 THEN 1 ELSE st.total_chunk_count) > 1

\* the chunk_info a result gets: none unless the statement is chunked
ChunkInfoOf(st) ==
    IF Chunked(st) THEN ChunkInfo(st.total_chunk_count, st.chunk_index, st.row_offset)
    ELSE NoChunkInfo

\* the except clause of get_query_result
GetResultExcept(text) ==
    CASE MentionsNotQuery(text) ->
            Payload("INVALID_ATTACHMENT", Absent, -1,
                    <<"The specified attachment is not a query result attachment">>)
      [] ~MentionsNotQuery(text) /\ Mentions(text, "RESOURCE_NOT_FOUND") ->
            Payload("RESOURCE_NOT_FOUND", Absent, -1,
                    <<"Conversation, message, or attachment not found. Please verify the IDs are correct.">>)
      [] ~MentionsNotQuery(text) /\ ~Mentions(text, "RESOURCE_NOT_FOUND")
            /\ Mentions(text, "PERMISSION_DENIED") ->
            Payload("PERMISSION_DENIED", Absent, -1,
                    <<"Insufficient permissions to access this query result">>)
      [] OTHER -> Payload("FETCH_FAILED", Absent, -1, text)

\* GetResultOutcome that reports a statement that did not succeed under an
\* error code made from its state
GetResultOutcomeByState(body) ==
    LET st == body.statement_response IN
    IF st.present /\ StateOf(st) # "SUCCEEDED"
    THEN Payload(StateOf(st), StateOf(st), -1, <<"Query execution status", StateOf(st)>>)
    ELSE Payload(Absent, StateOf(st), -1, <<>>)

\* from "Parse statement response" to the return
GetResultOutcome(body) ==
    LET st == body.statement_response
        status == StateOf(st)
    IN  CASE ~st.present ->
                Payload("INVALID_RESPONSE", Absent, -1, <<"No statement_response in API response">>)
          [] st.present /\ status = NullStatus ->
                GetResultExcept(<<"'NoneType' object has no attribute 'get'">>)
          [] st.present /\ status = "SUCCEEDED" ->
                [Payload(Absent, status, -1, <<>>) EXCEPT !.chunk_info = ChunkInfoOf(st)]
          [] st.present /\ status \in {"PENDING", "RUNNING"} ->
                Payload(Absent, status, -1, <<"Query is still", status>>)
          [] st.present /\ status = "FAILED" ->
                Payload("QUERY_EXECUTION_FAILED", status, -1, <<"Query execution failed">>)
          [] st.present /\ status = "CANCELLED" ->
                Payload("QUERY_CANCELLED", status, -1, <<"Query execution was cancelled">>)
          [] st.present /\ status = "CLOSED" ->
                Payload("QUERY_CLOSED", status, -1,
                        <<"Query execution was closed. Results may no longer be available.">>)
          [] OTHER -> Payload("UNKNOWN_STATUS", status, -1,
                              <<"Unknown query execution status", status>>)

\* entry of the tool: validation, the client, the headers and the GET
GetResultStart ==
    /\ pc = "start"
    /\ tool = GetQueryResult
    /\ LET err == GetResultValidation(args) IN
       IF err # Absent
       THEN /\ Return(InvalidInput(err))
            /\ UNCHANGED log
            /\ UNCHANGED tvars
       ELSE \E ok \in BOOLEAN :
               IF ok
               THEN /\ log' = log \o <<Ev("client", 0), Ev("authenticate", 0)>>
                    /\ CallTransport
                    /\ pc' = "result_call"
                    /\ UNCHANGED result
               ELSE /\ log' = Append(log, Ev("client", 0))
                    /\ Return(GetResultExcept(<<"Failed to authenticate with Databricks">>))
                    /\ UNCHANGED tvars
    /\ UNCHANGED <<service, qi, tool, args, max_wait_seconds, max_attempts, attempts,
                   current_status, message_dict, observed>>

\* the GET is over: it raised, or it returned the statement response
GetResultDone ==
    /\ pc = "result_call"
    /\ TransportDone
    /\ tpc' = "idle"
    /\ Return(IF tpc = "raised" THEN GetResultExcept(tret.text)
              ELSE IF tret.val.kind # "dict"
                   THEN GetResultExcept(<<"'list' object has no attribute 'get'">>)
                   ELSE GetResultOutcome(tret.val))
    /\ UNCHANGED <<attempt, last_exception, tret, resp, hist, log>>
    /\ UNCHANGED <<service, qi, tool, args, max_wait_seconds, max_attempts, attempts,
                   current_status, message_dict, observed>>

----------------------------------------------------------------------------
(* The secondary fetch of the poll tools *)

\* the loop over the queries skips those without attachment_id: the index of
\* the first query from i on that has one, Len + 1 if there is none
RECURSIVE NextQuery(_, _)
NextQuery(queries, i) ==
    IF i > Len(queries) THEN i
    ELSE IF queries[i].attachment_id = "" THEN NextQuery(queries, i + 1) ELSE i

\* a fetch that answers None for every statement that did not succeed
FetchQueryResultSucceededOnly(raised, body) ==
    LET st == body.statement_response IN
    IF ~raised /\ body.kind = "dict" /\ st.present /\ st.state = "SUCCEEDED"
    THEN [QueryResult(Absent, "SUCCEEDED", Absent, "", ChunkInfoOf(st)) EXCEPT
             !.statement_id = st.statement_id, !.data = "data_array"]
    ELSE NoQueryResult

\* _fetch_query_result once _make_api_request is over: NoQueryResult is None
FetchQueryResult(raised, body) ==
    LET st == body.statement_response IN
    CASE raised \/ body.kind # "dict" -> NoQueryResult
      [] ~raised /\ body.kind = "dict" /\ (~st.present \/ st.state = NullStatus) -> NoQueryResult
      [] OTHER ->
            IF StateOf(st) = "SUCCEEDED"
            THEN [QueryResult(Absent, "SUCCEEDED", Absent, "", ChunkInfoOf(st)) EXCEPT
                     !.statement_id = st.statement_id, !.data = "data_array"]
            ELSE [QueryResult(Absent, StateOf(st), "Query execution status", Absent, NoChunkInfo)
                     EXCEPT !.statement_id = st.statement_id]

\* a legacy fetch that keeps no record of a fetch that raised, the way
\* _fetch_query_result answers None
LegacyEntrySilent(att, raised, text, body) ==
    IF raised THEN NoQueryResult
    ELSE QueryResult(att, StateOf(body.statement_response), Absent, Absent, NoChunkInfo)

\* the entry the legacy tool appends to query_results for one query, whatever
\* became of its fetch
LegacyEntry(att, raised, text, body) ==
    LET st == body.statement_response IN
    CASE raised /\ MentionsNotQuery(text) ->
            QueryResult(att, Absent, "This attachment is not a query result attachment", Absent,
                        NoChunkInfo)
      [] raised /\ ~MentionsNotQuery(text) ->
            QueryResult(att, Absent, "Failed to fetch query results", Absent, NoChunkInfo)
      [] ~raised /\ (body.kind # "dict" \/ (st.present /\ st.state = NullStatus)) ->
            QueryResult(att, Absent, "Failed to fetch query results", Absent, NoChunkInfo)
      [] ~raised /\ body.kind = "dict" /\ ~st.present ->
            QueryResult(att, Absent, "No statement_response in query result", Absent, NoChunkInfo)
      [] OTHER ->
            CASE StateOf(st) = "SUCCEEDED" ->
                    [QueryResult(att, "SUCCEEDED", Absent, Absent, ChunkInfoOf(st)) EXCEPT
                        !.statement_id = st.statement_id, !.data = "data_array"]
              [] StateOf(st) = "FAILED" ->
                    [QueryResult(att, "FAILED", "Query execution failed", Absent, NoChunkInfo)
                        EXCEPT !.statement_id = st.statement_id]
              [] StateOf(st) \in {"PENDING", "RUNNING", "CANCELLED", "CLOSED"} ->
                    [QueryResult(att, StateOf(st), Absent, Absent, NoChunkInfo)
                        EXCEPT !.statement_id = st.statement_id]
              [] OTHER ->
                    [QueryResult(att, StateOf(st), "Unknown query execution status", Absent,
                                 NoChunkInfo)
                        EXCEPT !.statement_id = st.statement_id]

\* the head of the loop over the queries: past the last query the tool returns
\* its result; otherwise the fetch of the next query that has an attachment_id
\* is issued (the legacy tool fetches the headers anew, which may fail: its
\* inner except clause then records the failure for this query)
PollFetch ==
    /\ pc = "fetch_loop"
    /\ LET qs == result.attachments.queries
           j == NextQuery(qs, qi)
       IN  IF j > Len(qs)
           THEN /\ Return(result)
                /\ qi' = j
                /\ UNCHANGED log
                /\ UNCHANGED tvars
           ELSE \E ok \in IF tool = Legacy THEN BOOLEAN ELSE {TRUE} :
                   IF ok
                   THEN /\ log' = IF tool = Legacy
                                   THEN log \o <<Ev("authenticate", 0), Ev("fetch_call", j)>>
                                   ELSE Append(log, Ev("fetch_call", j))
                        /\ CallTransport
                        /\ qi' = j
                        /\ pc' = "fetch_call"
                        /\ UNCHANGED result
                   ELSE /\ log' = log \o <<Ev("authenticate", 0), Ev("fetched", 0)>>
                        /\ result' = [result EXCEPT !.query_results =
                                         Append(@, LegacyEntry(qs[j].attachment_id, TRUE,
                                                <<"Failed to authenticate with Databricks">>, NoValue))]
                        /\ qi' = j + 1
                        /\ pc' = "fetch_loop"
                        /\ UNCHANGED tvars
    /\ UNCHANGED <<service, tool, args, max_wait_seconds, max_attempts, attempts, current_status,
                   message_dict, observed>>

\* the fetch is over: poll_genie_response keeps a result that is not None and
\* returns, and goes on to the next query otherwise; the legacy tool appends
\* the entry of this query and goes on. The log notes whether the fetch
\* delivered (1: a result that is not None, resp. a SUCCEEDED entry) or not (0)
PollFetched ==
    /\ pc = "fetch_call"
    /\ TransportDone
    /\ tpc' = "idle"
    /\ LET q == result.attachments.queries[qi]
           qr == FetchQueryResult(tpc = "raised", tret.val)
           entry == LegacyEntry(q.attachment_id, tpc = "raised", tret.text, tret.val)
           delivered == IF tool = Generic THEN qr # NoQueryResult ELSE entry.status = "SUCCEEDED"
       IN  /\ log' = Append(log, Ev("fetched", IF delivered THEN 1 ELSE 0))
           /\ IF tool = Generic
              THEN IF qr # NoQueryResult
                   THEN /\ Return([result EXCEPT !.query_result = [qr EXCEPT !.sql = q.sql]])
                        /\ qi' = qi
                   ELSE /\ pc' = "fetch_loop"
                        /\ qi' = qi + 1
                        /\ UNCHANGED result
              ELSE /\ result' = [result EXCEPT !.query_results = Append(@, entry)]
                   /\ qi' = qi + 1
                   /\ pc' = "fetch_loop"
    /\ UNCHANGED <<attempt, last_exception, tret, resp, hist>>
    /\ UNCHANGED <<service, tool, args, max_wait_seconds, max_attempts, attempts, current_status,
                   message_dict, observed>>

----------------------------------------------------------------------------
(* SpecPoll: one invocation of a tool, for every input and every service *)

\* the largest max_wait_seconds the model draws
MaxWaitSeconds == 6

SpaceIds == {"", "  ", "123456789", "01f0d08866f11370b6735facce14e3ff"}

Ids == {"", "123456789", "0123456789"}

\* the raw status field of a job record
RawStatuses == {Absent, "UNKNOWN", "PAUSED"} \cup MESSAGE_STATUSES

\* what the status endpoint answers: a job record, a body that is no record,
\* a 404, a 400 whose message quotes another error, or a transient 503
PollResponses ==
    {Response("ok", 200, Dict(Absent, Absent, Absent, st)) : st \in RawStatuses}
    \cup {Response("ok", 200, ListBody), Response("ok", 404, EmptyBody),
          Response("ok", 400, Dict(MsgMention, Absent, Absent, Absent)),
          Response("ok", 503, EmptyBody)}

PollArgs ==
    {Args(sp, c, m, w, TRUE, NoQuery, "") :
        sp \in SpaceIds, c \in Ids, m \in Ids, w \in 0..MaxWaitSeconds}

\* long waits, around the limits of both tools: polled against a service whose
\* job never leaves EXECUTING
LongWaits == {-1, 62, 300, 301, 600, 601}

LongPollArgs ==
    {Args("01f0d08866f11370b6735facce14e3ff", "0123456789", "0123456789", w, TRUE, NoQuery, "") :
        w \in LongWaits}

LongPollResponses == {Response("ok", 200, Dict(Absent, Absent, Absent, "EXECUTING"))}

\* the queries of the submit tools: empty, blank, short, and around the limit
\* (the last one is at the limit once stripped, above it as given)
Queries ==
    {Query(0, 0), Query(2, 0), Query(0, 30), Query(0, MaxQueryLength),
     Query(0, MaxQueryLength + 1), Query(1, MaxQueryLength)}

\* conversation_id of a submit tool: None, or a string
SubmitArgs ==
    {Args(sp, c, "", 0, TRUE, q, "") : sp \in SpaceIds, c \in {Absent} \cup Ids, q \in Queries}

SubmitBody(c, m, st) ==
    [Dict(Absent, Absent, Absent, st) EXCEPT !.conversation_id = c, !.message_id = m]

\* what start-conversation answers: the new message, a body that lacks an id,
\* has an empty one, has a null message or is no object, a 404, a 403, or a
\* transient 503
SubmitResponses ==
    {Response("ok", 200, SubmitBody("01f0e34ce9641238a5018229451c2ff2",
                                     "01f0e34ce97a157983ba500ee38047ea", st)) :
        st \in {"SUBMITTED", Absent}}
    \cup {Response("ok", 200, SubmitBody(Absent, "01f0e34ce97a157983ba500ee38047ea", "SUBMITTED")),
          Response("ok", 200, SubmitBody("01f0e34ce9641238a5018229451c2ff2", Absent, "SUBMITTED")),
          Response("ok", 200, SubmitBody("", "01f0e34ce97a157983ba500ee38047ea", "SUBMITTED")),
          Response("ok", 200, SubmitBody("01f0e34ce9641238a5018229451c2ff2", "", "SUBMITTED")),
          Response("ok", 200, SubmitBody(NullMessage, "01f0e34ce97a157983ba500ee38047ea", Absent)),
          Response("ok", 200, ListBody), Response("ok", 404, EmptyBody),
          Response("ok", 403, EmptyBody), Response("ok", 503, EmptyBody)}

GetResultArgs == {Args("", c, m, 0, TRUE, NoQuery, att) : c \in Ids, m \in Ids, att \in Ids}

ResultBody(st) == [Dict(Absent, Absent, Absent, Absent) EXCEPT !.statement_response = st]

StatementStates ==
    {Absent, NullStatus, "SUCCEEDED", "PENDING", "RUNNING", "FAILED", "CANCELLED", "CLOSED",
     "QUEUED"}

\* what the query-result endpoint answers: a statement in some state, chunked or
\* not, a body without statement_response or that is no object, a refusal of
\* the attachment, a 404, or a transient 503
ResultResponses ==
    {Response("ok", 200, ResultBody(Statement(TRUE, st, -1))) : st \in StatementStates}
    \cup {Response("ok", 200, ResultBody(Statement(TRUE, "SUCCEEDED", 2))),
          Response("ok", 200, ResultBody(ChunkOf("s1", 1, 0, 0))),
          Response("ok", 200, ResultBody(ChunkOf("s1", 3, 1, 50))),
          Response("ok", 200, ResultBody([Statement(TRUE, "FAILED", -1) EXCEPT
                                             !.statement_id = "s2"])),
          Response("ok", 200, ResultBody(NoStatement)),
          Response("ok", 200, ListBody),
          Response("ok", 400, Dict(MsgNotQuery, Absent, Absent, Absent)),
          Response("ok", 404, EmptyBody), Response("ok", 503, EmptyBody)}

\* attachments of the job records of the "rich" service
QueryItem(att, sql) == Item("dict", att, Absent, sql, "absent", <<>>, Absent)

ErrorItem(att, error) == Item("dict", att, Absent, Absent, "absent", <<>>, error)

NullItem == Item("null", "", Absent, Absent, "absent", <<>>, Absent)

RichAttachments ==
    {Attachments("null", <<>>),
     Attachments("list", <<QueryItem("a1", "select 1")>>),
     Attachments("list", <<QueryItem("a1", "select 1"), QueryItem("a2", "select 2")>>),
     Attachments("list", <<QueryItem("", "select 0"), QueryItem("a2", "select 2")>>),
     Attachments("list", <<ErrorItem("a0", "e1"), QueryItem("a1", "select 1"),
                           ErrorItem("a3", "e2")>>),
     Attachments("list", <<ErrorItem("a0", ErrStr)>>),
     Attachments("list", <<NullItem, QueryItem("a1", "select 1")>>),
     Attachments("list", <<Item("dict", "a1", Absent, "select 1", "null", <<>>, Absent)>>),
     Attachments("list", <<Item("dict", "a4", "hello", Absent, "absent",
                                <<"q1", "  ", "q2", "q1">>, Absent),
                           Item("dict", "a5", "", "", "dict", <<"q2">>, Absent)>>)}

\* the job records of the "rich" service: a status with attachments
RichPollResponses ==
    {Response("ok", 200, [Dict(Absent, Absent, Absent, st) EXCEPT !.attachments = a]) :
        st \in {"COMPLETED", "FAILED", "ERROR", "EXECUTING"}, a \in RichAttachments}

\* one or two polls of a job, with and without the fetch of the results
RichPollArgs ==
    {Args("01f0d08866f11370b6735facce14e3ff", "0123456789", "0123456789", w, f, NoQuery, "") :
        f \in BOOLEAN, w \in {2, 4}}

\* what the service may answer to the request in flight
ServiceResponses ==
    CASE service = "stuck" -> LongPollResponses
      [] service = "rich" -> IF pc = "fetch_call" THEN ResultResponses ELSE RichPollResponses
      [] service = "submit" -> SubmitResponses
      [] service = "result" -> ResultResponses
      [] OTHER -> PollResponses

Invocation(sv, t, a) == [service |-> sv, tool |-> t, args |-> a]

\* the legacy tools take no space_id: theirs is fixed
LegacySpace(a) == a.space_id = "01f0d08866f11370b6735facce14e3ff"

PollInvocations ==
    {Invocation("plain", Generic, a) : a \in PollArgs}
    \cup {Invocation("plain", Legacy, a) : a \in {b \in PollArgs : LegacySpace(b)}}
    \cup {Invocation("stuck", t, a) : t \in {Generic, Legacy}, a \in LongPollArgs}
    \cup {Invocation("rich", t, a) : t \in {Generic, Legacy}, a \in RichPollArgs}

SubmitInvocations ==
    {Invocation("submit", QueryGenie, a) : a \in SubmitArgs}
    \cup {Invocation("submit", QuerySpace, a) : a \in {b \in SubmitArgs : LegacySpace(b)}}

GetResultInvocations == {Invocation("result", GetQueryResult, a) : a \in GetResultArgs}

Invocations == PollInvocations \cup SubmitInvocations \cup GetResultInvocations

InitPoll ==
    /\ attempt = 0
    /\ last_exception = NoException
    /\ tpc = "idle"
    /\ tret = NoResult
    /\ resp = NoResponse
    /\ hist = <<>>
    /\ log = <<>>
    /\ \E i \in Invocations : service = i.service /\ tool = i.tool /\ args = i.args
    /\ pc = "start"
    /\ max_wait_seconds = args.max_wait_seconds
    /\ max_attempts = 0
    /\ attempts = 0
    /\ current_status = "SUBMITTED"
    /\ message_dict = NoValue
    /\ observed = <<>>
    /\ qi = 0
    /\ result = NoPayload

NextPoll ==
    \/ SubmitStart
    \/ SubmitDone
    \/ GetResultStart
    \/ GetResultDone
    \/ PollStart
    \/ PollCall
    \/ PollLoopExit
    \/ Request(ServiceResponses)
    \/ BackoffSleep
    \/ PollStatus
    \/ PollSleep
    \/ PollDispatch
    \/ PollFetch
    \/ PollFetched

SpecPoll == InitPoll /\ [][NextPoll]_vars

\* the tool runs on a thread that keeps running: every request ends (the HTTP
\* timeout) and every sleep returns
FairSpecPoll == SpecPoll /\ WF_vars(NextPoll)

----------------------------------------------------------------------------
(* SpecExtract: _extract_attachments applied to a job record *)

\* the longest attachments list the model draws
MaxItems == 2

\* attachments as they come: an element that is no object, a text, a text of
\* whitespace only, questions with blanks and repetitions, queries with their
\* metadata absent, given and null, an empty query next to an error, an
\* element with all four sub-keys, an error that is a string, an empty object
ExtractItems ==
    {NullItem,
     Item("dict", "a1", "hello", Absent, "absent", <<>>, Absent),
     Item("dict", "a2", "  ", Absent, "absent", <<>>, Absent),
     Item("dict", "a3", "", Absent, "absent", <<"q1", "  ", "q2", "q1">>, Absent),
     QueryItem("a4", "select 1"),
     Item("dict", "a5", Absent, "select 2", "dict", <<>>, Absent),
     Item("dict", "a6", Absent, "select 3", "null", <<>>, Absent),
     Item("dict", "a7", Absent, "", "absent", <<>>, "e1"),
     Item("dict", "a8", "hi", "select 4", "dict", <<"q2", NonString, " q1 ", "q3">>, "e2"),
     ErrorItem("a9", ErrStr),
     Item("dict", "", Absent, Absent, "absent", <<>>, Absent)}

RECURSIVE ListsUpTo(_, _)
ListsUpTo(S, n) ==
    IF n = 0 THEN {<<>>}
    ELSE LET shorter == ListsUpTo(S, n - 1)
         IN  shorter \cup {Append(l, x) : l \in {k \in shorter : Len(k) = n - 1}, x \in S}

\* the job records: attachments absent, null, of another type, or a list
ExtractRecords ==
    {[Dict(Absent, Absent, Absent, "COMPLETED") EXCEPT !.attachments = a] :
        a \in {NoAttachments, Attachments("null", <<>>), Attachments("other", <<>>)}
               \cup {Attachments("list", l) : l \in ListsUpTo(ExtractItems, MaxItems)}}

InitExtract ==
    /\ attempt = 0
    /\ last_exception = NoException
    /\ tpc = "idle"
    /\ tret = NoResult
    /\ resp = NoResponse
    /\ hist = <<>>
    /\ log = <<>>
    /\ service = "none"
    /\ tool = "_extract_attachments"
    /\ args = NoArgs
    /\ pc = "extract"
    /\ max_wait_seconds = 0
    /\ max_attempts = 0
    /\ attempts = 0
    /\ current_status = "COMPLETED"
    /\ message_dict \in ExtractRecords
    /\ observed = <<>>
    /\ qi = 0
    /\ result = NoPayload

\* the call: the bundle is returned, or the function raises
ExtractCall ==
    /\ pc = "extract"
    /\ LET ex == ExtractAttachments(message_dict) IN
       IF ex.raised
       THEN /\ pc' = "extract_raised"
            /\ UNCHANGED result
       ELSE /\ pc' = "extracted"
            /\ result' = [NoPayload EXCEPT !.attachments = ex.bundle]
    /\ UNCHANGED <<service, qi, tool, args, max_wait_seconds, max_attempts, attempts,
                   current_status, message_dict, observed, log>>
    /\ UNCHANGED tvars

NextExtract == ExtractCall

SpecExtract == InitExtract /\ [][NextExtract]_vars

----------------------------------------------------------------------------
(* SpecConc: two invocations of poll_genie_response for different job handles,
   each on a thread of its own, interleaved at every request and every sleep.
   The state of an invocation is the locals of its call frame and of the frame
   of _make_api_request: here every variable is a function of the invocation.
   tools.py assigns no module-level name after import and keeps no cache, so
   nothing else is there for two invocations to share *)

\* the two invocations
Procs == {1, 2}

\* what the status endpoint answers for either handle
ConcResponses ==
    {Response("ok", 200, Dict(Absent, Absent, Absent, st)) : st \in {"EXECUTING", "COMPLETED"}}
    \cup {Response("ok", 404, EmptyBody), Response("ok", 503, EmptyBody)}

\* the handles polled, one of them malformed, with one or two attempts
ConcArgs ==
    {Args("01f0d08866f11370b6735facce14e3ff", c, "0123456789", w, FALSE, NoQuery, "") :
        c \in {"123456789", "0123456789"}, w \in {2, 4}}

\* the variables SpecConc does not use
idle == <<tool, resp, hist, observed, qi>>

InitConc ==
    /\ tool = Generic
    /\ args \in [Procs -> ConcArgs]
    /\ service = [p \in Procs |-> <<>>]
    /\ log = [p \in Procs |-> <<>>]
    /\ pc = [p \in Procs |-> "start"]
    /\ tpc = [p \in Procs |-> "idle"]
    /\ attempt = [p \in Procs |-> 0]
    /\ last_exception = [p \in Procs |-> NoException]
    /\ tret = [p \in Procs |-> NoResult]
    /\ max_wait_seconds = [p \in Procs |-> args[p].max_wait_seconds]
    /\ max_attempts = [p \in Procs |-> 0]
    /\ attempts = [p \in Procs |-> 0]
    /\ current_status = [p \in Procs |-> "SUBMITTED"]
    /\ message_dict = [p \in Procs |-> NoValue]
    /\ result = [p \in Procs |-> NoPayload]
    /\ resp = NoResponse
    /\ hist = <<>>
    /\ observed = <<>>
    /\ qi = 0

\* invocation p returns
ConcReturn(p, payload) ==
    /\ result' = [result EXCEPT ![p] = payload]
    /\ pc' = [pc EXCEPT ![p] = "done"]

\* what poll_genie_response returns when its loop is left with the given status
\* after n attempts: the dispatch on the status, with the (here empty)
\* attachments for COMPLETED
LoopOutcome(status, n, w, body) ==
    LET out == Outcome(Generic, status, n, w, body) IN
    IF status = "COMPLETED"
    THEN [out EXCEPT !.attachments = ExtractAttachments(body).bundle]
    ELSE out

\* entry of invocation p: validation, the clamp, max_attempts, the client
ConcStart(p) ==
    /\ pc[p] = "start"
    /\ LET err == GenericValidation(args[p])
           w == Clamp(args[p].max_wait_seconds)
       IN  IF err # Absent
           THEN /\ ConcReturn(p, InvalidInput(err))
                /\ UNCHANGED <<log, max_wait_seconds, max_attempts>>
           ELSE /\ max_wait_seconds' = [max_wait_seconds EXCEPT ![p] = w]
                /\ max_attempts' = [max_attempts EXCEPT ![p] = GenericMaxAttempts(w)]
                /\ \E ok \in BOOLEAN :
                      IF ok
                      THEN /\ log' = [log EXCEPT ![p] = @ \o <<Ev("client", 0), Ev("authenticate", 0)>>]
                           /\ pc' = [pc EXCEPT ![p] = "loop"]
                           /\ UNCHANGED result
                      ELSE /\ log' = [log EXCEPT ![p] = Append(@, Ev("client", 0))]
                           /\ ConcReturn(p, PollExcept(Generic, <<"Failed to authenticate with Databricks">>))
    /\ UNCHANGED <<service, args, attempts, current_status, message_dict>>
    /\ UNCHANGED <<attempt, last_exception, tpc, tret>>
    /\ UNCHANGED idle

\* ConcLoop with one attempts counter for all invocations
ConcLoopSharedCounter(p) ==
    /\ pc[p] = "loop"
    /\ LoopContinues(attempts[p], max_attempts[p])
    /\ attempts' = [q \in Procs |-> attempts[p] + 1]
    /\ log' = [log EXCEPT ![p] = Append(@, Ev("status_call", 0))]
    /\ attempt' = [attempt EXCEPT ![p] = 0]
    /\ last_exception' = [last_exception EXCEPT ![p] = NoException]
    /\ tret' = [tret EXCEPT ![p] = NoResult]
    /\ tpc' = [tpc EXCEPT ![p] = "request"]
    /\ pc' = [pc EXCEPT ![p] = "status_call"]
    /\ UNCHANGED <<service, args, max_wait_seconds, max_attempts, current_status, message_dict, result>>
    /\ UNCHANGED idle

\* the head of the loop of invocation p: one more attempt and its status call
\* (entry of _make_api_request), or the loop is over and the tool returns the
\* outcome for the last status
ConcLoop(p) ==
    /\ pc[p] = "loop"
    /\ IF LoopContinues(attempts[p], max_attempts[p])
       THEN /\ attempts' = [attempts EXCEPT ![p] = @ + 1]
            /\ log' = [log EXCEPT ![p] = Append(@, Ev("status_call", 0))]
            /\ attempt' = [attempt EXCEPT ![p] = 0]
            /\ last_exception' = [last_exception EXCEPT ![p] = NoException]
            /\ tret' = [tret EXCEPT ![p] = NoResult]
            /\ tpc' = [tpc EXCEPT ![p] = "request"]
            /\ pc' = [pc EXCEPT ![p] = "status_call"]
            /\ UNCHANGED result
       ELSE /\ ConcReturn(p, LoopOutcome(current_status[p], attempts[p], max_wait_seconds[p],
                                            message_dict[p]))
            /\ UNCHANGED <<attempts, log, attempt, last_exception, tret, tpc>>
    /\ UNCHANGED <<service, args, max_wait_seconds, max_attempts, current_status, message_dict>>
    /\ UNCHANGED idle

\* one iteration of the for loop of _make_api_request in invocation p, up to
\* its sleep: the service answers r for the handle of p
ConcRequest(p) ==
    /\ tpc[p] = "request"
    /\ \E r \in ConcResponses :
          LET it == Iteration(r, attempt[p], retry_count, last_exception[p], "ValueError") IN
          /\ service' = [service EXCEPT ![p] = Append(@, r)]
          /\ log' = [log EXCEPT ![p] = Append(@, Ev("request", 0))]
          /\ last_exception' = [last_exception EXCEPT ![p] = it.last]
          /\ tpc' = [tpc EXCEPT ![p] = CASE it.go = "return" -> "returned"
                                         [] it.go = "raise" -> "raised"
                                         [] it.go = "sleep" -> "sleep"
                                         [] OTHER -> "request"]
          /\ attempt' = [attempt EXCEPT ![p] = IF it.go = "next" THEN @ + 1 ELSE @]
          /\ tret' = [tret EXCEPT ![p] = IF it.go \in {"return", "raise"} THEN it.ret ELSE @]
    /\ UNCHANGED <<args, pc, max_wait_seconds, max_attempts, attempts, current_status,
                   message_dict, result>>
    /\ UNCHANGED idle

\* time.sleep(delay) of the backoff in invocation p: only its thread sleeps
ConcBackoffSleep(p) ==
    /\ tpc[p] = "sleep"
    /\ log' = [log EXCEPT ![p] = Append(@, Ev("sleep", Backoff(attempt[p])))]
    /\ attempt' = [attempt EXCEPT ![p] = @ + 1]
    /\ tpc' = [tpc EXCEPT ![p] = "request"]
    /\ UNCHANGED <<last_exception, tret>>
    /\ UNCHANGED <<service, args, pc, max_wait_seconds, max_attempts, attempts, current_status,
                   message_dict, result>>
    /\ UNCHANGED idle

\* the status call of invocation p is over: the except clause answers when it
\* raised; a terminal status leaves the loop and the tool returns its outcome;
\* otherwise the loop sleeps if attempts remain
ConcStatus(p) ==
    /\ pc[p] = "status_call"
    /\ tpc[p] \in {"returned", "raised"}
    /\ tpc' = [tpc EXCEPT ![p] = "idle"]
    /\ IF tpc[p] = "raised"
       THEN /\ ConcReturn(p, PollExcept(Generic, tret[p].text))
            /\ UNCHANGED <<current_status, message_dict>>
       ELSE LET st == StatusOf(tret[p].val) IN
            /\ message_dict' = [message_dict EXCEPT ![p] = tret[p].val]
            /\ current_status' = [current_status EXCEPT ![p] = st]
            /\ IF IsTerminal(st)
               THEN ConcReturn(p, LoopOutcome(st, attempts[p], max_wait_seconds[p], tret[p].val))
               ELSE /\ pc' = [pc EXCEPT ![p] = AfterStatus(attempts[p], max_attempts[p])]
                    /\ UNCHANGED result
    /\ UNCHANGED <<attempt, last_exception, tret, log>>
    /\ UNCHANGED <<service, args, max_wait_seconds, max_attempts, attempts>>
    /\ UNCHANGED idle

\* time.sleep(POLL_INTERVAL_SECONDS) in invocation p
ConcSleep(p) ==
    /\ pc[p] = "poll_sleep"
    /\ log' = [log EXCEPT ![p] = Append(@, Ev("poll_sleep", POLL_INTERVAL_SECONDS))]
    /\ pc' = [pc EXCEPT ![p] = "loop"]
    /\ UNCHANGED <<service, args, max_wait_seconds, max_attempts, attempts, current_status,
                   message_dict, result>>
    /\ UNCHANGED <<attempt, last_exception, tpc, tret>>
    /\ UNCHANGED idle

\* either thread takes its next step
NextConc ==
    \E p \in Procs :
        \/ ConcStart(p)
        \/ ConcLoop(p)
        \/ ConcRequest(p)
        \/ ConcBackoffSleep(p)
        \/ ConcStatus(p)
        \/ ConcSleep(p)

SpecConc == InitConc /\ [][NextConc]_vars

----------------------------------------------------------------------------
(* Claims about _make_api_request, checked under Spec *)

NumRequests == Cardinality({i \in DOMAIN log : log[i].ev = "request"})

RECURSIVE SumDelays(_)
SumDelays(l) == IF l = <<>> THEN 0
                ELSE (IF Head(l).ev = "sleep" THEN Head(l).d ELSE 0) + SumDelays(Tail(l))

AllOf(h, kinds) == h # <<>> /\ \A i \in DOMAIN h : h[i] \in kinds

\* three requests with sleeps of 1 then 2 between them
FullBudgetLog ==
    <<Ev("request", 0), Ev("sleep", 1), Ev("request", 0), Ev("sleep", 2), Ev("request", 0)>>

TerminalWord(status) ==
    CASE status = 400 -> "BAD_REQUEST"
      [] status = 401 -> "UNAUTHENTICATED"
      [] status = 403 -> "PERMISSION_DENIED"
      [] OTHER -> "RESOURCE_NOT_FOUND"

ExhaustedWord(status) ==
    CASE status = 429 -> "RESOURCE_EXHAUSTED"
      [] status = 500 -> "INTERNAL_ERROR"
      [] OTHER -> "UNAVAILABLE"

\* C1: a first response with status 400, 401, 403 or 404, whatever its body, ends
\* the call at once: one request, no sleep, and the failure carries BAD_REQUEST,
\* UNAUTHENTICATED, PERMISSION_DENIED or RESOURCE_NOT_FOUND respectively.
C1_TerminalStatusFailsAtOnce ==
    (resp.net = "ok" /\ resp.status \in {400, 401, 403, 404} /\ Len(hist) = 1) =>
        /\ tpc = "raised"
        /\ log = <<Ev("request", 0)>>
        /\ tret.text[1] = TerminalWord(resp.status)

\* C2: a finished call all of whose attempts answered 429 (500, 503) made exactly
\* three requests, slept 1 then 2 between them, and failed with RESOURCE_EXHAUSTED
\* (INTERNAL_ERROR, UNAVAILABLE).
C2_TransientExhaustion ==
    \A s \in {429, 500, 503} :
        (TransportDone /\ AllOf(hist, {ToString(s)})) =>
            /\ log = FullBudgetLog
            /\ tpc = "raised"
            /\ tret.text[1] = ExhaustedWord(s)

C2_Witness == TransportDone /\ hist = <<"429", "429", "429">>

\* the latest response has just been received: nothing was done since
JustAnswered == log # <<>> /\ log[Len(log)].ev = "request"

\* C3: after a status of 400 or more other than 400/401/403/404/429/500/503 the call
\* goes on only if the status is 500 or more and attempts remain, and then only
\* through the backoff sleep; any other such status ends the call after that request.
C3_OtherStatusRetriedOnlyFrom500 ==
    (JustAnswered /\ resp.net = "ok" /\ resp.status >= 400
        /\ resp.status \notin {400, 401, 403, 404, 429, 500, 503}) =>
        \/ tpc = "raised"
        \/ tpc = "sleep" /\ resp.status >= 500 /\ attempt < retry_count - 1

\* C4: after a parsed body with an error_code the call goes on only if the code is
\* RESOURCE_EXHAUSTED, UNAVAILABLE or INTERNAL_ERROR and attempts remain; for any
\* other code it fails after that request with the embedded code.
C4_BodyErrorFailsFast ==
    (JustAnswered /\ resp.net = "ok" /\ resp.status = 200 /\ resp.body.kind = "dict"
        /\ resp.body.error_code # Absent) =>
        \/ tpc = "raised" /\ tret.text[1] = "API Error" /\ tret.text[2] = resp.body.error_code
        \/ tpc = "sleep" /\ resp.body.error_code \in retryable_codes
                         /\ attempt < retry_count - 1

\* C5: a first response with a successful status and a body that does not parse
\* fails the call with the invalid-response error after that one request, no sleep.
C5_InvalidJsonNotRetried ==
    (resp.net = "ok" /\ resp.status = 200 /\ resp.body.kind \in {"empty", "garbage"}
        /\ Len(hist) = 1) =>
        /\ tpc = "raised"
        /\ log = <<Ev("request", 0)>>
        /\ tret.text[1] = "Invalid JSON response. Status code"

NetworkErrorText(kind) ==
    IF kind = "Timeout" THEN <<"Request timeout after 30 seconds">>
    ELSE <<"Connection error - unable to reach Databricks API">>

\* C6: a finished call all of whose attempts ended in a timeout or a connection
\* error made exactly three requests, slept 1 then 2 between them, and failed with
\* the network error of the last attempt.
C6_NetworkExhaustion ==
    (TransportDone /\ AllOf(hist, {"Timeout", "ConnectionError"})) =>
        /\ log = FullBudgetLog
        /\ tpc = "raised"
        /\ tret.text = NetworkErrorText(hist[Len(hist)])

C6_Witness == TransportDone /\ hist = <<"Timeout", "Timeout", "ConnectionError">>

\* C7: at every point of a call at most 3 requests have been issued and at most 3
\* time units slept in backoff; a sleep is always followed by another request, so
\* the last thing a finished call did is a request, never a sleep.
C7_RetryBudget ==
    /\ NumRequests <= 3
    /\ SumDelays(log) <= 3
    /\ (TransportDone => log[Len(log)].ev = "request")
    /\ (log # <<>> /\ log[Len(log)].ev = "sleep" => tpc = "request" /\ attempt < retry_count)

C7_Witness == TransportDone /\ NumRequests = 3 /\ SumDelays(log) = 3

----------------------------------------------------------------------------
(* Claims about the poll loop, checked under SpecPoll *)

CountEv(ev) == Cardinality({i \in DOMAIN log : log[i].ev = ev})

NumStatusCalls == CountEv("status_call")

NumPollSleeps == CountEv("poll_sleep")

LastObserved == observed[Len(observed)]

\* C8: when the latest status response is the first one with a terminal status and
\* it is the N-th, exactly N status calls and N - 1 poll sleeps have been made, and
\* the tool is past its loop: no status call and no sleep follows.
C8_StopsAtTerminal ==
    (observed # <<>> /\ LastObserved \in TERMINAL_MESSAGE_STATES) =>
        /\ \A i \in 1..(Len(observed) - 1) : observed[i] \notin TERMINAL_MESSAGE_STATES
        /\ Len(observed) <= max_attempts
        /\ NumStatusCalls = Len(observed)
        /\ NumPollSleeps = Len(observed) - 1
        /\ log[Len(log)].ev \notin {"poll_sleep", "status_call"}
        /\ pc \in {"dispatch", "fetch_loop", "fetch_call", "done"}

C8_Witness ==
    /\ pc = "done"
    /\ tool = Legacy
    /\ observed = <<"SUBMITTED", "EXECUTING", "COMPLETED">>

\* C9 as stated: the loop sleeps and polls again only after SUBMITTED or EXECUTING.
C9_OnlySubmittedExecutingContinue ==
    (pc \in {"poll_sleep", "status_call"} /\ observed # <<>>) =>
        LastObserved \in {"SUBMITTED", "EXECUTING"}

\* C9 amended: the loop sleeps and polls again after every status that is not
\* terminal while attempts remain (SUBMITTED and EXECUTING, and also an absent
\* status, UNKNOWN and any unrecognized string), and never after a terminal one.
C9_NonTerminalContinues ==
    /\ (pc \in {"poll_sleep", "status_call"} /\ observed # <<>>) =>
            LastObserved \notin TERMINAL_MESSAGE_STATES
    /\ (pc = "dispatch" /\ observed # <<>> /\ LastObserved \notin TERMINAL_MESSAGE_STATES) =>
            attempts = max_attempts

C9_Witness == pc = "poll_sleep" /\ observed = <<"SUBMITTED", "PAUSED">>

\* the status an invocation reports for a raw status field
Reported(raw) == {StatusOf([status |-> raw]), UnknownStatus(StatusOf([status |-> raw]))}

C10_TimeoutAfterMaxAttempts ==
    (/\ pc = "done"
     /\ tool \in {Generic, Legacy}
     /\ result.error \notin {"INVALID_INPUT", "POLL_FAILED", "RESOURCE_NOT_FOUND"}
     /\ \A i \in DOMAIN observed : observed[i] \notin TERMINAL_MESSAGE_STATES) =>
        /\ result.error = "TIMEOUT"
        /\ NumStatusCalls = max_attempts
        /\ Len(observed) = max_attempts
        /\ (args.max_wait_seconds = 4 => NumStatusCalls = 2)
        /\ result.status \in Reported(LastObserved)
        /\ result.message[Len(result.message)] = result.status

\* C10: every poll invocation terminates, and one that observed no terminal status
\* made exactly max_attempts status calls (2 for max_wait_seconds = 4) and returns
\* TIMEOUT with the last observed status.
C10_PollTerminates == []C10_TimeoutAfterMaxAttempts /\ <>(pc = "done")

C10_Witness ==
    /\ pc = "done"
    /\ result.error = "TIMEOUT"
    /\ args.max_wait_seconds = 4
    /\ observed = <<"EXECUTING", Absent>>

\* C11 as stated: in both poll tools a poll that never sees a terminal status makes
\* exactly max(1, floor(max_wait_seconds / 2)) status calls, for every accepted
\* max_wait_seconds.
C11_MaxAttemptsIsHalfTheWait ==
    (pc = "done" /\ result.error = "TIMEOUT") =>
        NumStatusCalls = Max(1, max_wait_seconds \div 2)

----------------------------------------------------------------------------
(* Claims about input validation, checked under SpecPoll *)

SubmitTools == {QueryGenie, QuerySpace}

PollTools == {Generic, Legacy}

TooShort(id) == id = "" \/ StrLen(id) < 10

\* the inputs C12 lists as failing validation
ListedInvalid ==
    \/ tool \in SubmitTools /\ QLen(QStrip(args.query)) = 0
    \/ tool \in SubmitTools /\ args.conversation_id \notin {Absent, ""}
          /\ TooShort(args.conversation_id)
    \/ tool \in {QueryGenie, Generic} /\ args.space_id = ""
    \/ tool \in PollTools \cup {GetQueryResult}
          /\ (TooShort(args.conversation_id) \/ TooShort(args.message_id))
    \/ tool = GetQueryResult /\ TooShort(args.attachment_id)

\* C12: in every submit, poll and get-query-result tool an input that fails
\* validation (empty query, empty or too-short conversation_id, message_id or
\* attachment_id, empty space_id) returns INVALID_INPUT, and an invocation that
\* returns INVALID_INPUT made no HTTP request, acquired no credentials and never slept.
C12_InvalidInputBeforeAnyCall ==
    /\ (pc = "done" /\ ListedInvalid) => result.error = "INVALID_INPUT"
    /\ ListedInvalid => pc \in {"start", "done"}
    /\ result.error = "INVALID_INPUT" => log = <<>> /\ tpc = "idle" /\ hist = <<>>

C12_Witness ==
    /\ pc = "done"
    /\ tool = GetQueryResult
    /\ args.attachment_id = "123456789"
    /\ ~TooShort(args.conversation_id) /\ ~TooShort(args.message_id)
    /\ result.error = "INVALID_INPUT"

\* C13 as stated: poll_genie_response rejects with INVALID_INPUT, before any
\* network call, every handle one of whose identifiers space_id, conversation_id,
\* message_id is empty or shorter than 10 characters.
C13_ShortIdentifierRejected ==
    (/\ tool = Generic
     /\ pc # "start"
     /\ \/ TooShort(args.space_id)
        \/ TooShort(args.conversation_id)
        \/ TooShort(args.message_id)) =>
        pc = "done" /\ result.error = "INVALID_INPUT" /\ log = <<>>

\* the validation of the tool invoked
ValidationError ==
    CASE tool \in SubmitTools -> SubmitValidation(args, tool)
      [] tool = Generic -> GenericValidation(args)
      [] tool = Legacy -> LegacyValidation(args)
      [] OTHER -> GetResultValidation(args)

ConversationIdMessages ==
    {<<"Invalid conversation_id format">>,
     <<"Invalid conversation_id format. Must be a valid UUID string.">>}

\* C14 as stated: in every operation that takes a conversation_id, one of length
\* 9 or less is rejected with INVALID_INPUT.
C14_NineOrLessRejected ==
    (pc # "start" /\ args.conversation_id # Absent /\ StrLen(args.conversation_id) <= 9) =>
        pc = "done" /\ result.error = "INVALID_INPUT"

\* C14 amended: a conversation_id of 1 to 9 characters is rejected with
\* INVALID_INPUT by every tool that takes one, and an empty one by the poll tools
\* and get-query-result; the submit tools take an empty conversation_id as none
\* given and never reject the input for it; one of 10 or more characters is never
\* rejected for its format, and when the whole input is valid and the
\* credentials are obtained a request is sent.
C14_ConversationIdBoundary ==
    /\ (pc # "start" /\ args.conversation_id \notin {Absent, ""}
            /\ StrLen(args.conversation_id) <= 9) =>
            pc = "done" /\ result.error = "INVALID_INPUT" /\ log = <<>>
    /\ (pc # "start" /\ tool \notin SubmitTools /\ args.conversation_id = "") =>
            pc = "done" /\ result.error = "INVALID_INPUT" /\ log = <<>>
    /\ (args.conversation_id \in {Absent, ""} \/ StrLen(args.conversation_id) >= 10) =>
            /\ result.message \notin ConversationIdMessages
            /\ (tool \in SubmitTools /\ args.conversation_id = "" /\ ValidationError # Absent) =>
                    ValidationError = SubmitValidation([args EXCEPT !.conversation_id = Absent], tool)
            /\ (pc = "done" /\ ValidationError = Absent
                    /\ result.message # <<"Failed to authenticate with Databricks">>) =>
                    NumRequests >= 1

C14_Witness ==
    /\ pc = "done"
    /\ tool = QueryGenie
    /\ args.conversation_id = ""
    /\ result.error = Absent
    /\ result.conversation_id # Absent

TooLongMessage == <<"Query exceeds maximum length of 10,000 characters">>

\* C15 as stated: every submit with a query of more than 10,000 characters
\* returns INVALID_INPUT without any network call.
C15_LongerThanLimitRejected ==
    (tool \in SubmitTools /\ pc # "start" /\ args.query.pad + args.query.body > MaxQueryLength) =>
        pc = "done" /\ result.error = "INVALID_INPUT" /\ log = <<>>

\* C15 amended: the length is that of the query without its leading and trailing
\* whitespace. Every submit whose stripped query has more than 10,000 characters
\* returns INVALID_INPUT without any network call; a query whose stripped text has
\* 1 to 10,000 characters passes the length check (it is never rejected for its
\* length, and with the rest of the input valid it is sent), even when the query
\* as given is longer than 10,000 characters.
C15_StrippedLengthLimit ==
    tool \in SubmitTools =>
        /\ (pc # "start" /\ args.query.body > MaxQueryLength) =>
                pc = "done" /\ result.error = "INVALID_INPUT" /\ log = <<>>
                /\ (result.message = TooLongMessage \/ Strip(args.space_id) = "")
        /\ (args.query.body >= 1 /\ args.query.body <= MaxQueryLength) =>
                /\ result.message # TooLongMessage
                /\ ValidationError \in {Absent, "space_id is required",
                                         "Invalid conversation_id format. Must be a valid UUID string."}

C15_Witness ==
    /\ pc = "done"
    /\ tool = QuerySpace
    /\ args.query = Query(1, MaxQueryLength)
    /\ NumRequests >= 1
    /\ result.error = Absent

----------------------------------------------------------------------------
(* Claims about the wait bound and the outcome of a poll, checked under SpecPoll *)

AuthenticationFailed == result.message = <<"Failed to authenticate with Databricks">>

\* C16: poll_genie_response polls as if max_wait_seconds were brought into
\* [1, 300]: with valid identifiers it never rejects the value, makes at least 1
\* and at most 150 status calls, and exactly max(1, floor(clamped / 2)) when the
\* status never becomes terminal. The legacy poll tool, given valid identifiers,
\* accepts exactly the values in [1, 600]: outside it returns INVALID_INPUT with
\* nothing called, inside it goes on to acquire the client.
C16_WaitBoundPerConvention ==
    LET w == args.max_wait_seconds
        clamped == IF w < 1 THEN 1 ELSE IF w > 300 THEN 300 ELSE w
    IN  /\ (tool = Generic /\ pc # "start" /\ GenericValidation(args) = Absent) =>
                /\ max_wait_seconds = clamped
                /\ max_attempts >= 1 /\ max_attempts <= 150
                /\ NumStatusCalls <= max_attempts
                /\ result.error # "INVALID_INPUT"
                /\ (pc = "done" /\ ~AuthenticationFailed) => NumStatusCalls >= 1
                /\ (pc = "done" /\ result.error = "TIMEOUT") =>
                        NumStatusCalls = Max(1, clamped \div 2)
        /\ (tool = Legacy /\ pc # "start" /\ IdsError(args, Legacy) = Absent) =>
                /\ (w < 1 \/ w > 600) =>
                        pc = "done" /\ result.error = "INVALID_INPUT" /\ log = <<>>
                /\ (w >= 1 /\ w <= 600) =>
                        result.error # "INVALID_INPUT" /\ log # <<>>

C16_Witness ==
    /\ pc = "done"
    /\ tool = Generic
    /\ args.max_wait_seconds = 601
    /\ result.error = "TIMEOUT"
    /\ NumStatusCalls = 150

\* every iteration of the poll loop obtained a job record
EveryCallAnswered == tool \in PollTools /\ attempts >= 1 /\ Len(observed) = attempts

\* C17 as stated: whatever job record the status endpoint returned, the outcome of
\* a poll follows from the last observed status alone: FAILED gives MESSAGE_FAILED
\* with the error values of the raw attachments, in order, as error details,
\* CANCELLED gives MESSAGE_CANCELLED, ERROR gives MESSAGE_ERROR, a status that is
\* not terminal gives TIMEOUT and COMPLETED gives a payload without error.
C17_OutcomeByLastStatus ==
    (pc = "done" /\ EveryCallAnswered) =>
        CASE LastObserved = "FAILED" ->
                /\ result.error = "MESSAGE_FAILED"
                /\ result.error_details = ErrorDetails(message_dict).details
          [] LastObserved = "CANCELLED" -> result.error = "MESSAGE_CANCELLED"
          [] LastObserved = "ERROR" -> result.error = "MESSAGE_ERROR"
          [] LastObserved = "COMPLETED" -> result.error = Absent /\ result.status = "COMPLETED"
          [] OTHER -> result.error = "TIMEOUT"

----------------------------------------------------------------------------
(* Claims about the secondary fetch, checked under SpecPoll *)

NumFetchCalls == CountEv("fetch_call")

\* C18 as stated: one poll_genie_response call issues at most one secondary fetch,
\* and only for the first entry of the queries of the bundle, whatever that
\* fetch returns.
C18_OneFetchForFirstQuery ==
    tool = Generic =>
        /\ NumFetchCalls <= 1
        /\ \A i \in DOMAIN log : log[i].ev = "fetch_call" => log[i].d = 1

\* a fetch of this invocation came back without a result
SomeFetchFailed == \E i \in DOMAIN log : log[i] = Ev("fetched", 0)

\* C19 as stated: in poll_genie_response, once COMPLETED has been observed, a
\* failed secondary fetch never changes the outcome: the call returns status
\* COMPLETED with the attachments and no error, and query_result is omitted;
\* no failure of the fetch reaches the tool as an exception.
C19_FailedFetchOmitsResult ==
    (tool = Generic /\ pc = "done" /\ SomeFetchFailed) =>
        /\ result.error = Absent
        /\ result.status = "COMPLETED"
        /\ result.attachments = ExtractAttachments(message_dict).bundle
        /\ result.query_result = NoQueryResult

\* the extracted queries the legacy tool fetches: those with an attachment_id
FetchedQueries ==
    SelectSeq(ExtractAttachments(message_dict).bundle.queries, LAMBDA q : q.attachment_id # "")

\* the outcomes of the fetches of this invocation, in order
FetchOutcomes == SelectSeq(log, LAMBDA e : e.ev = "fetched")

\* the legacy poll tool saw COMPLETED, extracted the attachments and was asked
\* to fetch the results
LegacyFetchOver ==
    /\ tool = Legacy
    /\ pc = "done"
    /\ args.fetch_query_results
    /\ current_status = "COMPLETED"
    /\ ~ExtractAttachments(message_dict).raised

\* C20: in the legacy poll tool with fetch_query_results true, every extracted
\* query with a non-empty attachment id has exactly one entry in query_results,
\* in query order, whatever became of its fetch: an entry carries a statement
\* state or, for a fetch that failed, an error under the attachment id; no entry
\* is dropped and the poll call itself still succeeds with COMPLETED.
C20_OneEntryPerQuery ==
    LegacyFetchOver =>
        /\ result.error = Absent
        /\ result.status = "COMPLETED"
        /\ Len(result.query_results) = Len(FetchedQueries)
        /\ Len(FetchOutcomes) = Len(FetchedQueries)
        /\ \A i \in DOMAIN result.query_results :
              LET e == result.query_results[i]
              IN  /\ e.attachment_id = FetchedQueries[i].attachment_id
                  /\ e.status # Absent \/ e.error # Absent
                  /\ FetchOutcomes[i].d = 1 <=> e.status = "SUCCEEDED"

\* two queries, the fetch of the first failed and left an error record, the
\* second was fetched all the same and succeeded
C20_Witness ==
    /\ LegacyFetchOver
    /\ Len(result.query_results) = 2
    /\ result.query_results[1].status = Absent
    /\ result.query_results[1].error # Absent
    /\ result.query_results[2].status = "SUCCEEDED"

----------------------------------------------------------------------------
(* Claims about the errors the tools return, checked under SpecPoll *)

\* the last call of the transport raised for a 404, which it classified as
\* RESOURCE_NOT_FOUND
TransportSaid404 ==
    /\ tret.t = "raise"
    /\ resp.net = "ok" /\ resp.status = 404
    /\ tret.text # <<>> /\ tret.text[1] = "RESOURCE_NOT_FOUND"

\* the status call of a poll tool raised: the invocation is over, no fetch was
\* made and the last call of the transport raised
StatusCallRaised ==
    /\ tool \in PollTools
    /\ pc = "done"
    /\ NumFetchCalls = 0
    /\ NumStatusCalls > 0
    /\ tret.t = "raise"

\* C21 as stated: with valid input, every failure while polling comes back as a
\* payload, never as an exception: a transport failure of the status call gives
\* RESOURCE_NOT_FOUND when the transport classified a 404 and POLL_FAILED with
\* the raw error text otherwise; a status response that is no record and a
\* failure of the extraction of the attachments give POLL_FAILED.
C21_PollFailuresAsPayload ==
    /\ StatusCallRaised =>
          IF TransportSaid404 THEN result.error = "RESOURCE_NOT_FOUND"
          ELSE result.error = "POLL_FAILED" /\ result.message = tret.text
    /\ (tool \in PollTools /\ pc = "done" /\ message_dict.kind = "list") =>
          result.error = "POLL_FAILED"
    /\ (tool \in PollTools /\ pc = "done" /\ current_status = "COMPLETED"
          /\ ExtractAttachments(message_dict).raised) =>
          result.error = "POLL_FAILED"

\* C22 as stated: when the transport classifies a 404, a submit tool returns
\* SPACE_NOT_FOUND and a poll tool RESOURCE_NOT_FOUND, the legacy tools like
\* the generic ones, and the 404 is answered at its one request: the transport
\* sends nothing after it.
C22_NotFoundByOperation ==
    (pc = "done" /\ TransportSaid404 /\ NumFetchCalls = 0
        /\ tool \in SubmitTools \cup PollTools) =>
        /\ result.error = IF tool \in SubmitTools THEN "SPACE_NOT_FOUND"
                          ELSE "RESOURCE_NOT_FOUND"
        /\ \A i \in DOMAIN hist : hist[i] = "404" => i = Len(hist)

\* the error codes the specification lists
ListedErrorCodes ==
    {"INVALID_INPUT", "QUERY_FAILED", "POLL_FAILED", "FETCH_FAILED", "MESSAGE_FAILED",
     "MESSAGE_CANCELLED", "MESSAGE_ERROR", "TIMEOUT", "QUERY_EXECUTION_FAILED",
     "QUERY_CANCELLED", "RESOURCE_NOT_FOUND", "PERMISSION_DENIED", "UNAUTHENTICATED",
     "RESOURCE_EXHAUSTED", "SPACE_NOT_FOUND", "INVALID_RESPONSE", "INVALID_ATTACHMENT",
     "UNKNOWN_STATUS"}

\* a tool returned an error payload
ErrorReturned == pc = "done" /\ result.error # Absent

\* C23 as stated: the error field of every error payload of a submit, poll or
\* get-query-result operation is one of the eighteen listed codes.
C23_ErrorInListedCodes == ErrorReturned => result.error \in ListedErrorCodes

\* C23, amended: the error field of every error payload is one of the listed
\* codes or QUERY_CLOSED, which get-query-result returns, and returns only, for
\* a statement in state CLOSED.
C23_ErrorInCodesOfTheTools ==
    /\ ErrorReturned => result.error \in ListedErrorCodes \cup {"QUERY_CLOSED"}
    /\ (ErrorReturned /\ result.error = "QUERY_CLOSED") =>
          /\ tool = GetQueryResult
          /\ tret.t = "return"
          /\ StateOf(tret.val.statement_response) = "CLOSED"
    /\ (pc = "done" /\ tool = GetQueryResult /\ tret.t = "return" /\ tret.val.kind = "dict"
          /\ tret.val.statement_response.present
          /\ StateOf(tret.val.statement_response) = "CLOSED") =>
          result.error = "QUERY_CLOSED"

\* get-query-result answered a closed statement with QUERY_CLOSED
C23_Witness ==
    /\ ErrorReturned
    /\ tool = GetQueryResult
    /\ result.error = "QUERY_CLOSED"
    /\ result.status = "CLOSED"

----------------------------------------------------------------------------
(* Claims about _extract_attachments, checked under SpecExtract *)

\* the elements of the attachments list of the record (none when it is no list)
ItemsOf == message_dict.attachments.items

\* the bundle the call returned
Extracted == result.attachments

\* C24 as stated: _extract_attachments never fails, whatever the attachments
\* field and its elements and sub-fields hold, and answers the empty bundle
\* when the field is absent, null or no list.
C24_ExtractIsTotal ==
    /\ pc # "extract_raised"
    /\ (pc = "extracted" /\ message_dict.attachments.shape # "list") =>
          Extracted = Bundle(<<>>, <<>>, <<>>, <<>>)

\* C25 as stated: no text response of the bundle has a content that is empty
\* once its whitespace is trimmed.
C25_BlankTextLeftOut ==
    pc = "extracted" =>
        \A i \in DOMAIN Extracted.text_responses : Strip(Extracted.text_responses[i].content) # ""

\* the places <<element, index>> of the candidate questions: strings that are
\* not blank once trimmed, in elements that are objects
QuestionPlaces ==
    UNION {{<<k, l>> : l \in {m \in DOMAIN ItemsOf[k].questions :
                                  /\ ItemsOf[k].kind = "dict"
                                  /\ ValidQuestion(ItemsOf[k].questions[m])}} :
           k \in DOMAIN ItemsOf}

QuestionAt(p) == ItemsOf[p[1]].questions[p[2]]

\* place p comes before place r in the traversal
PlaceBefore(p, r) == p[1] < r[1] \/ (p[1] = r[1] /\ p[2] < r[2])

\* where a candidate is seen first
FirstPlace(q) ==
    CHOOSE p \in QuestionPlaces :
        /\ QuestionAt(p) = q
        /\ \A r \in QuestionPlaces : QuestionAt(r) = q => (r = p \/ PlaceBefore(p, r))

\* C26: the suggested_questions of the bundle are exactly the candidates
\* (strings, not blank once trimmed) of all attachments, each once, in the
\* order in which they are first seen: no duplicate, no blank, no non-string.
C26_QuestionsFirstSeenOrder ==
    pc = "extracted" =>
        LET sq == Extracted.suggested_questions IN
        /\ {sq[i] : i \in DOMAIN sq} = {QuestionAt(p) : p \in QuestionPlaces}
        /\ \A i \in DOMAIN sq : sq[i] # NonString /\ Strip(sq[i]) # ""
        /\ \A i, j \in DOMAIN sq :
              i < j => /\ sq[i] # sq[j]
                       /\ PlaceBefore(FirstPlace(sq[i]), FirstPlace(sq[j]))

\* two attachments with a repetition inside one and across both, a blank and
\* a non-string: the questions come out once each, first seen first, unsorted
C26_Witness ==
    /\ pc = "extracted"
    /\ Len(ItemsOf) = 2
    /\ ItemsOf[1].questions = <<"q2", NonString, " q1 ", "q3">>
    /\ ItemsOf[2].questions = <<"q1", "  ", "q2", "q1">>
    /\ Extracted.suggested_questions = <<"q2", " q1 ", "q3", "q1">>

\* the well-formed sub-keys of an element
HasText(it) == it.kind = "dict" /\ it.text \notin {Absent, ""}

HasQuery(it) == it.kind = "dict" /\ it.sql \notin {Absent, ""}

HasError(it) == it.kind = "dict" /\ it.error \notin {Absent, ErrStr}

\* how many of the first k elements have the sub-key
Rank(Has(_), k) == Cardinality({j \in 1..k : Has(ItemsOf[j])})

\* C27: every element contributes to each collection on its own: an element
\* with a text, a query with SQL and an error has one entry in each of
\* text_responses, queries and errors, at the rank of the element among those
\* that have the sub-key, and its questions are among the suggested ones; the
\* collections hold nothing else.
C27_SubKeysIndependent ==
    pc = "extracted" =>
        /\ Len(Extracted.text_responses) = Rank(HasText, Len(ItemsOf))
        /\ Len(Extracted.queries) = Rank(HasQuery, Len(ItemsOf))
        /\ Len(Extracted.errors) = Rank(HasError, Len(ItemsOf))
        /\ \A k \in DOMAIN ItemsOf :
              LET it == ItemsOf[k] IN
              /\ HasText(it) =>
                    Extracted.text_responses[Rank(HasText, k)] =
                        [content |-> it.text, attachment_id |-> it.attachment_id]
              /\ HasQuery(it) =>
                    Extracted.queries[Rank(HasQuery, k)] =
                        [sql |-> it.sql, attachment_id |-> it.attachment_id]
              /\ HasError(it) =>
                    Extracted.errors[Rank(HasError, k)] =
                        [message |-> it.error, attachment_id |-> it.attachment_id]
              /\ it.kind = "dict" =>
                    \A l \in DOMAIN it.questions :
                        ValidQuestion(it.questions[l]) =>
                            \E i \in DOMAIN Extracted.suggested_questions :
                                Extracted.suggested_questions[i] = it.questions[l]

\* an element with all four sub-keys after an element with a text: it has its
\* entry in every collection, the second one among the texts
C27_Witness ==
    /\ pc = "extracted"
    /\ Len(ItemsOf) = 2
    /\ HasText(ItemsOf[1])
    /\ HasText(ItemsOf[2]) /\ HasQuery(ItemsOf[2]) /\ HasError(ItemsOf[2])
    /\ ItemsOf[2].questions # <<>>
    /\ Len(Extracted.text_responses) = 2
    /\ Len(Extracted.queries) = 1
    /\ Len(Extracted.errors) = 1

----------------------------------------------------------------------------
(* Claims about the query results, checked under SpecPoll *)

\* the statement_response of the answer the transport returned last
LastStatement == tret.val.statement_response

\* the last call of the transport returned a statement
StatementAnswered ==
    /\ tret.t = "return"
    /\ tret.val.kind = "dict"
    /\ LastStatement.present

\* the last step of the tool was to take the answer of a fetch
FetchJustAnswered ==
    /\ Len(log) > 1
    /\ log[Len(log)].ev = "fetched"
    /\ log[Len(log) - 1].ev = "request"

\* info is the chunk_info the last statement calls for
ChunkInfoMatches(info) ==
    /\ info # NoChunkInfo <=> LastStatement.total_chunk_count > 1
    /\ info # NoChunkInfo =>
          info = ChunkInfo(LastStatement.total_chunk_count, LastStatement.chunk_index,
                           LastStatement.row_offset)

\* C28: for a statement in state SUCCEEDED the result carries chunk_info exactly
\* when total_chunk_count is greater than 1, and chunk_info then holds that
\* total, the chunk_index and the row_offset of the result; this in the result
\* of _fetch_query_result (poll_genie_response), in the entries of the legacy
\* poll tool and in the legacy get-query-result tool.
C28_ChunkInfoIffChunked ==
    (StatementAnswered /\ LastStatement.state = "SUCCEEDED") =>
        /\ (tool = Generic /\ pc = "done" /\ FetchJustAnswered) =>
              /\ result.query_result.status = "SUCCEEDED"
              /\ ChunkInfoMatches(result.query_result.chunk_info)
        /\ (tool = Legacy /\ pc \in {"fetch_loop", "done"} /\ FetchJustAnswered) =>
              LET e == result.query_results[Len(result.query_results)] IN
              /\ e.status = "SUCCEEDED"
              /\ ChunkInfoMatches(e.chunk_info)
        /\ (tool = GetQueryResult /\ pc = "done") =>
              /\ result.status = "SUCCEEDED"
              /\ ChunkInfoMatches(result.chunk_info)

\* poll_genie_response returned the second of three chunks, which starts at
\* row 50
C28_Witness ==
    /\ tool = Generic
    /\ pc = "done"
    /\ StatementAnswered
    /\ LastStatement.total_chunk_count = 3
    /\ result.query_result.chunk_info = ChunkInfo(3, 1, 50)

\* C29: for a statement in any state other than SUCCEEDED (absent and
\* unrecognized states included) _fetch_query_result returns a reduced record:
\* the statement id, the state as reported and a status note, no data and no
\* chunk_info; and no fetch ever makes poll_genie_response fail.
C29_ReducedRecordForOtherStates ==
    (tool = Generic /\ pc = "done" /\ NumFetchCalls > 0) =>
        /\ result.error = Absent
        /\ result.status = "COMPLETED"
        /\ (FetchJustAnswered /\ StatementAnswered
                /\ LastStatement.state \notin {"SUCCEEDED", NullStatus}) =>
              /\ result.query_result.statement_id = LastStatement.statement_id
              /\ result.query_result.status =
                    (IF LastStatement.state = Absent THEN "UNKNOWN" ELSE LastStatement.state)
              /\ result.query_result.error = "Query execution status"
              /\ result.query_result.data = Absent
              /\ result.query_result.chunk_info = NoChunkInfo

\* the statement s2 had failed: its reduced record is what the poll returns
C29_Witness ==
    /\ tool = Generic
    /\ pc = "done"
    /\ FetchJustAnswered
    /\ StatementAnswered
    /\ LastStatement.state = "FAILED"
    /\ result.query_result.statement_id = "s2"
    /\ result.query_result.status = "FAILED"
    /\ result.query_result.data = Absent

----------------------------------------------------------------------------
(* Claims about the submit tools, checked under SpecPoll *)

\* the POST returned a body
SubmitAnswered == tool \in SubmitTools /\ pc = "done" /\ tret.t = "return"

SubmitPosted ==
    /\ tool \in SubmitTools
    /\ \E i \in DOMAIN log : log[i].ev = "authenticate"

\* C31: a submit tool that reaches the service makes one transport call (every
\* request of the invocation belongs to the one call to start-conversation, at
\* most MAX_RETRIES of them) and returns after it: it never calls the status
\* endpoint, never fetches a result and never sleeps the poll interval, whatever
\* the response says.
C31_SubmitIsOneTransportCall ==
    /\ tool \in SubmitTools =>
          /\ NumStatusCalls = 0 /\ NumPollSleeps = 0 /\ CountEv("fetch_call") = 0
          /\ NumRequests = Len(hist) /\ NumRequests <= MAX_RETRIES
          /\ pc \in {"start", "submit_call", "done"}
    /\ (SubmitPosted /\ pc = "done") =>
          /\ NumRequests >= 1
          /\ TransportDone \/ tpc = "idle"
          /\ log[Len(log)].ev = "request"

\* the POST was answered 503, then 200 with status SUBMITTED: the tool returned
\* the handle after two requests of one call
C31_Witness ==
    /\ SubmitAnswered
    /\ hist = <<"503", "200">>
    /\ result.status = "SUBMITTED"
    /\ result.conversation_id = "01f0e34ce9641238a5018229451c2ff2"
    /\ NumStatusCalls = 0

----------------------------------------------------------------------------
(* Claims about the order of the requests of a poll, checked under SpecPoll *)

\* the places of the log where a request of the given kind is issued
PlacesOf(ev) == {i \in DOMAIN log : log[i].ev = ev}

\* the error codes of the outcomes FAILED, CANCELLED, ERROR and TIMEOUT
UnfinishedCodes == {"MESSAGE_FAILED", "MESSAGE_CANCELLED", "MESSAGE_ERROR", "TIMEOUT"}

\* C32: in one call of a poll tool a query-result request is issued only after a
\* status response COMPLETED was observed and only when fetch_query_results is
\* true; no status request follows a query-result request; and a call whose
\* outcome is FAILED, CANCELLED, ERROR or TIMEOUT issued no query-result request.
C32_RequestsInOrder ==
    tool \in PollTools =>
        /\ PlacesOf("fetch_call") # {} =>
              /\ observed # <<>> /\ LastObserved = "COMPLETED"
              /\ NumStatusCalls = Len(observed)
              /\ args.fetch_query_results
              /\ current_status = "COMPLETED"
        /\ \A i \in PlacesOf("fetch_call") : \A j \in PlacesOf("status_call") : j < i
        /\ (pc = "done" /\ (result.error \in UnfinishedCodes \/ ~args.fetch_query_results)) =>
              PlacesOf("fetch_call") = {}
        /\ pc \in {"fetch_loop", "fetch_call"} => args.fetch_query_results

\* two status calls, the second one answered COMPLETED, then the fetches of two
\* queries
C32_Witness ==
    /\ tool \in PollTools
    /\ pc = "done"
    /\ observed = <<"EXECUTING", "COMPLETED">>
    /\ Cardinality(PlacesOf("fetch_call")) = 2
    /\ result.error = Absent

----------------------------------------------------------------------------
(* Claims about the time a poll sleeps, checked under SpecPoll *)

\* the time slept by the poll loop itself: the sum of its time.sleep calls
RECURSIVE PollSlept(_)
PollSlept(l) == IF l = <<>> THEN 0
                ELSE (IF Head(l).ev = "poll_sleep" THEN Head(l).d ELSE 0) + PollSlept(Tail(l))

\* the time slept never exceeds POLL_INTERVAL_SECONDS * (max_attempts - 1) nor the
\* effective max_wait_seconds
SleptWithinWait ==
    (tool \in PollTools /\ max_attempts >= 1) =>
        /\ PollSlept(log) <= POLL_INTERVAL_SECONDS * (max_attempts - 1)
        /\ POLL_INTERVAL_SECONDS * (max_attempts - 1) <= max_wait_seconds
        /\ max_wait_seconds >= 1

\* the last iteration of the legacy tool ended before its status call: the
\* headers, which it obtains anew for every call, could not be obtained
HeadersFailedInLoop ==
    /\ tool = Legacy
    /\ pc = "done"
    /\ log[Len(log)].ev = "authenticate"

\* C33: a poll call that entered its loop slept, in the loop itself,
\* POLL_INTERVAL_SECONDS * (status calls - 1), one status call being counted
\* per iteration entered (an iteration of the legacy tool that fails to obtain
\* its headers ends the call before its request is sent); this is at most
\* POLL_INTERVAL_SECONDS * (max_attempts - 1) and never exceeds the effective
\* max_wait_seconds.
C33_SleptPerIteration ==
    /\ (tool \in PollTools /\ pc = "done" /\ attempts >= 1) =>
          /\ PollSlept(log) = POLL_INTERVAL_SECONDS * (attempts - 1)
          /\ NumStatusCalls = (IF HeadersFailedInLoop THEN attempts - 1 ELSE attempts)
          /\ attempts <= max_attempts
    /\ (tool \in PollTools /\ pc = "done" /\ NumStatusCalls >= 1 /\ ~HeadersFailedInLoop) =>
          PollSlept(log) = POLL_INTERVAL_SECONDS * (NumStatusCalls - 1)
    /\ SleptWithinWait

\* three status calls in a wait of 6 seconds: 4 seconds slept
C33_Witness ==
    /\ tool \in PollTools
    /\ pc = "done"
    /\ max_wait_seconds = 6
    /\ NumStatusCalls = 3
    /\ PollSlept(log) = 4
    /\ result.error = "TIMEOUT"

----------------------------------------------------------------------------
(* Claims about concurrent invocations, checked under SpecConc *)

\* _make_api_request run alone on the responses seq from place i on, at
\* iteration a: what it returns or raises, and the place of the next response
RECURSIVE AloneTransport(_, _, _, _)
AloneTransport(seq, i, a, last) ==
    LET it == Iteration(seq[i], a, retry_count, last, "ValueError") IN
    IF it.go \in {"return", "raise"}
    THEN [ret |-> it.ret, next |-> i + 1]
    ELSE AloneTransport(seq, i + 1, a + 1, it.last)

\* the poll loop run alone on the responses seq from place i on, after n
\* attempts: the payload returned and the number of requests made
RECURSIVE AlonePoll(_, _, _, _, _, _, _)
AlonePoll(seq, i, n, status, body, m, w) ==
    IF ~(n < m)
    THEN [result |-> LoopOutcome(status, n, w, body), requests |-> i - 1]
    ELSE LET t == AloneTransport(seq, i, 0, NoException) IN
         IF t.ret.t = "raise"
         THEN [result |-> PollExcept(Generic, t.ret.text), requests |-> t.next - 1]
         ELSE LET st == StatusOf(t.ret.val) IN
              IF st \in TERMINAL_MESSAGE_STATES
              THEN [result |-> LoopOutcome(st, n + 1, w, t.ret.val), requests |-> t.next - 1]
              ELSE AlonePoll(seq, t.next, n + 1, st, t.ret.val, m, w)

\* poll_genie_response run alone with arguments a against the responses seq;
\* ok tells whether its client authenticated
Alone(a, seq, ok) ==
    LET w == Clamp(a.max_wait_seconds) IN
    CASE GenericValidation(a) # Absent ->
            [result |-> InvalidInput(GenericValidation(a)), requests |-> 0]
      [] GenericValidation(a) = Absent /\ ~ok ->
            [result |-> PollExcept(Generic, <<"Failed to authenticate with Databricks">>),
             requests |-> 0]
      [] OTHER -> AlonePoll(seq, 1, 0, "SUBMITTED", NoValue, GenericMaxAttempts(w), w)

\* the requests invocation p has made
RequestsOf(p) == Cardinality({i \in DOMAIN log[p] : log[p][i].ev = "request"})

Authenticated(p) == \E i \in DOMAIN log[p] : log[p][i].ev = "authenticate"

\* C34: each of two invocations for different handles, interleaved at every
\* request and sleep, returns the payload and makes the number of requests it
\* makes when run alone against the responses its own handle got: whatever the
\* other invocation does, has done or has failed with.
C34_ConcurrentAsAlone ==
    \A p \in Procs :
        /\ pc[p] = "done" =>
              /\ Alone(args[p], service[p], Authenticated(p)).result = result[p]
              /\ Alone(args[p], service[p], Authenticated(p)).requests = RequestsOf(p)
              /\ RequestsOf(p) = Len(service[p])
        /\ attempts[p] <= max_attempts[p]
        /\ attempt[p] < retry_count

\* invocation 1 has timed out after two status calls while invocation 2, for
\* other arguments, is in the backoff sleep of its first status call: the two
\* overlap and differ in their counters
C34_Witness ==
    /\ pc[1] = "done" /\ result[1].error = "TIMEOUT" /\ result[1].poll_attempts = 2
    /\ tpc[2] = "sleep" /\ attempts[2] = 1
    /\ log[2][Len(log[2])].ev = "request"
    /\ args[1] # args[2]

----------------------------------------------------------------------------
(* Claims about the statuses and payloads of a poll, checked under SpecPoll *)

\* the poll ended on the status it observed last: every status call was
\* answered with a job record and the tool returned
EndedOnLastStatus ==
    /\ tool \in PollTools
    /\ pc = "done"
    /\ observed # <<>>
    /\ NumStatusCalls = Len(observed)
    /\ result.error # "POLL_FAILED"

\* C35: a poll that ends on a status string outside SUBMITTED, EXECUTING,
\* COMPLETED, FAILED, CANCELLED, ERROR returns TIMEOUT, in both poll tools, with
\* the status UNKNOWN_<raw> in the payload and in its message.
C35_UnknownStatusEscaped ==
    (EndedOnLastStatus /\ LastObserved \notin MESSAGE_STATUSES \cup {Absent}) =>
        /\ result.error = "TIMEOUT"
        /\ result.status = UnknownStatus(LastObserved)
        /\ result.status \in {"UNKNOWN_PAUSED", "UNKNOWN_UNKNOWN"}
        /\ result.message[Len(result.message)] = result.status

\* C36: a payload a poll tool returns with status COMPLETED has the key
\* attachments and no error field; a payload with any other status (FAILED,
\* CANCELLED, ERROR or a non-terminal value) has an error field and no
\* attachments.
C36_AttachmentsIffCompleted ==
    (tool \in PollTools /\ pc = "done" /\ result.status # Absent) =>
        IF result.status = "COMPLETED"
        THEN result.attachments.present /\ result.error = Absent
        ELSE /\ result.error \in UnfinishedCodes
             /\ ~result.attachments.present
             /\ result.query_result = NoQueryResult /\ result.query_results = <<>>

\* a completed message without attachments: the payload has the key, with an
\* empty bundle
C36_Witness ==
    /\ tool \in PollTools
    /\ pc = "done"
    /\ result.status = "COMPLETED"
    /\ result.attachments = Bundle(<<>>, <<>>, <<>>, <<>>)
    /\ result.error = Absent

----------------------------------------------------------------------------
(* More claims about _make_api_request, checked under Spec *)

\* the text _make_api_request raises for an error e of its last iteration: the
\* except clause that catches e rewords it
RaisedFor(e) ==
    CASE e.cls = "Timeout" -> <<"Request timeout after 30 seconds">>
      [] e.cls = "ConnectionError" -> <<"Connection error - unable to reach Databricks API">>
      [] e.cls = "HTTPError" -> <<"HTTP error">> \o e.text
      [] e.cls = "RequestException" -> <<"Request failed">> \o e.text
      [] OTHER -> e.text

\* the call failed after its last iteration
BudgetUsed == tpc = "raised" /\ Len(hist) = retry_count

\* C37: when _make_api_request fails after using its whole budget, the error it
\* raises is the one the final attempt produced (as reworded by the except clause
\* that caught it), whatever the earlier attempts produced; and no call ever
\* fails with 'Request failed for unknown reason'.
C37_LastAttemptsError ==
    /\ BudgetUsed =>
          \E jcls \in JsonErrorClassesFor(resp) :
              LET e == TryBlock(resp, retry_count - 1, retry_count, jcls) IN
              /\ e.t = "raise"
              /\ tret.text = RaisedFor(e)
    /\ tret.text # <<"Request failed for unknown reason">>

\* a timeout, then a 429, then a 503: the call fails with the error of the 503
C37_Witness ==
    /\ BudgetUsed
    /\ hist = <<"Timeout", "429", "503">>
    /\ tret.text = <<"UNAVAILABLE", "Service temporarily unavailable. Please try again later">>

\* the kinds of failure the transport retries after a backoff sleep
RetryableKinds == {"429", "500", "503", "Timeout", "ConnectionError"}

\* C38: when an attempt that failed retryably is followed, within the budget, by
\* an attempt that succeeds, the call returns the body of that attempt and no
\* error, and the successful request is the last thing the call does: no request
\* and no sleep follows it.
C38_SuccessAfterRetryReturns ==
    /\ (tpc = "returned" /\ Len(hist) >= 2) =>
          /\ resp.net = "ok" /\ resp.status < 400 /\ hist[Len(hist)] = Kind(resp)
          /\ tret.t = "return" /\ tret.val = resp.body /\ tret.text = NoException
          /\ log[Len(log)].ev = "request"
          /\ NumRequests = Len(hist) /\ Len(hist) <= retry_count
          /\ AllOf(SubSeq(hist, 1, Len(hist) - 1), RetryableKinds) =>
                /\ SumDelays(log) = Pow2(Len(hist) - 1) - 1
                /\ Len(log) = 2 * Len(hist) - 1
    /\ (Len(hist) >= 2 /\ hist[Len(hist) - 1] \in RetryableKinds
           /\ resp.net = "ok" /\ resp.status = 200 /\ resp.body.kind = "dict"
           /\ resp.body.error_code = Absent /\ log[Len(log)].ev = "request") =>
          tpc = "returned"

\* a 429, a connection error, then a 200 with a body: three requests, sleeps
\* of 1 and 2 seconds, and the body is returned
C38_Witness ==
    /\ tpc = "returned"
    /\ hist = <<"429", "ConnectionError", "200">>
    /\ tret.val = Dict(MsgPlain, Absent, Absent, Absent)
    /\ log = FullBudgetLog

\* a status call has failed in the transport, after the retries of the transport
StatusRequestFailed ==
    /\ tool \in PollTools
    /\ NumStatusCalls > 0
    /\ NumFetchCalls = 0
    /\ tret.t = "raise"

\* C39: once a status request has failed in the transport, the poll call ends
\* with an error payload and does nothing more: no status call, no poll sleep and
\* no fetch follows the failed request, whatever the attempts left and the
\* statuses observed before.
C39_FailedStatusCallEndsPoll ==
    StatusRequestFailed =>
        /\ log[Len(log)].ev = "request"
        /\ NumStatusCalls = Len(observed) + 1
        /\ NumPollSleeps = Len(observed)
        /\ \/ pc = "status_call" /\ tpc = "raised"
           \/ /\ pc = "done"
              /\ result.error \in {"POLL_FAILED", "RESOURCE_NOT_FOUND"}
              /\ result.status = Absent /\ ~result.attachments.present

\* EXECUTING was observed, the second status call failed with 503 three times
\* and the call returned POLL_FAILED with one attempt left
C39_Witness ==
    /\ StatusRequestFailed
    /\ pc = "done"
    /\ observed = <<"EXECUTING">>
    /\ hist = <<"503", "503", "503">>
    /\ attempts = 2 /\ max_attempts = 3
    /\ result.error = "POLL_FAILED"

\* C40: a poll payload that carries poll_attempts carries the number of status
\* calls made in the invocation, which is at least 1 and at most max_attempts;
\* and a poll with valid input whose client and headers are obtained makes at
\* least one status call, also with max_wait_seconds = 1.
C40_PollAttemptsCountsStatusCalls ==
    /\ (tool \in PollTools /\ result.poll_attempts # -1) =>
          /\ result.poll_attempts = NumStatusCalls
          /\ result.poll_attempts = Len(observed)
          /\ 1 <= result.poll_attempts /\ result.poll_attempts <= max_attempts
    /\ (tool \in PollTools /\ pc = "done" /\ result.error # "INVALID_INPUT"
           /\ ~AuthenticationFailed) =>
          NumStatusCalls >= 1

\* max_wait_seconds = 1: one status call, reported as poll_attempts 1
C40_Witness ==
    /\ tool \in PollTools
    /\ pc = "done"
    /\ args.max_wait_seconds = 1
    /\ result.error = "TIMEOUT"
    /\ result.poll_attempts = 1
    /\ NumStatusCalls = 1

====
